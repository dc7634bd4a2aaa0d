-------------------------- MODULE InterpreterProofs --------------------------
(***************************************************************************)
(* What the commands of Interpreter keep true of the keyspace and what     *)
(* they answer, proved for any keys, fields, members and texts, commands   *)
(* of any length and lists of any length.                                  *)
(***************************************************************************)
EXTENDS Interpreter, NaturalFacts, SequenceTheorems, FiniteSetTheorems, TLAPS

(***************************************************************************)
(* The inductive invariant.  An entry has its type's shape and its         *)
(* elements are counted and not none.                                      *)
(***************************************************************************)
Maps == [Names -> Texts \cup {NULL}]

Good(e) ==
    /\ e \in Entry
    /\ e.type = "hash" => e.used = Cardinality(Fields(e)) /\ Fields(e) # {}
    /\ e.type = "list" => e.elements # <<>>
    /\ e.type = "set" => e.used = Cardinality(e.members) /\ e.members # {}

Counted(s) ==
    /\ DOMAIN s = Keys
    /\ s \in [Keys -> Entry \cup {NULL}]
    /\ \A k \in Keys : s[k] # NULL => Good(s[k])

(* The command whose loop runs, and that the type it looked at first is      *)
(* still its key's: the iterations before may have deleted or created it.    *)
TypeOfLoop(op) ==
    IF op \in {"hset", "hdel", "hmget"} THEN "hash"
    ELSE IF op \in {"lpush", "rpush"} THEN "list" ELSE "set"

KeysLoop ==
    [op : {"del", "exists", "mset", "mget"}, key : {NULL}, items : ItemsOf(Keys), next : Nat]
NamesLoop ==
    [op : {"hset", "hdel", "hmget", "lpush", "rpush", "sadd", "srem", "smismember"},
     key : Keys, items : ItemsOf(Names), next : Nat]

Loop ==
    pc = "loop" =>
        /\ \/ cmd \in KeysLoop
           \/ cmd \in NamesLoop /\ is_type(cmd.key, TypeOfLoop(cmd.op))
        /\ cmd.next \in 1 .. Len(cmd.items) + 1

(* Between two commands nothing is in progress. *)
Rest ==
    pc # "loop" => cmd = NoCommand /\ oks = 0 /\ res = <<>> /\ before = store

(* What the iterations so far have added up is what they have done so far. *)
Lost == {x \in Keys : before[x] # NULL /\ store[x] = NULL}
Found(n) == {i \in 1 .. n : before[cmd.items[i]] # NULL}

Sums ==
    /\ oks \in Nat
    /\ cmd.op = "del" => /\ IsFiniteSet(Lost) /\ oks = Cardinality(Lost)
                         /\ \A x \in Keys : store[x] # NULL => before[x] # NULL
    /\ cmd.op = "exists" => store = before /\ oks = Cardinality(Found(cmd.next - 1))
    /\ cmd.op \in {"hset", "sadd", "hdel", "srem"} => Size(before, cmd.key) \in Nat
    /\ cmd.op \in {"hset", "sadd"} => oks = Size(store, cmd.key) - Size(before, cmd.key)
    /\ cmd.op \in {"hdel", "srem"} => oks = Size(before, cmd.key) - Size(store, cmd.key)
    /\ cmd.op \in {"lpush", "rpush"} /\ cmd.next > 1 => oks = Size(store, cmd.key)

(* What an iteration of a loop that fills an array finds. *)
Item(i) == Effect(cmd.op, cmd.key, cmd.items[i], NULL).res

Fills ==
    IF cmd.op \in Arrays
    THEN /\ res = [i \in 1 .. cmd.next - 1 |-> Item(i)]
         /\ cmd.op = "mget" => is_type(cmd.items[1], "string")
    ELSE res = <<>>

Replied ==
    reply.op \in Commands \cup Constant \cup {"none", "argc"} /\ reply.key \in Keys \cup {NULL}

IInv ==
    /\ Counted(store) /\ Counted(before) /\ Loop /\ Rest /\ Replied
    /\ pc = "loop" => Sums /\ Fills
    /\ pc \in {"idle", "loop", "crashed"}

(* What a step does to the type of a key. *)
Kept ==
    \A k \in Keys :
        store[k] # NULL /\ store'[k] # NULL /\ store'[k].type # store[k].type =>
            cmd.op = "mset" \/ (pc = "idle" /\ reply'.op = "set")

(* A change to k only, which leaves nothing or a good entry of the type. *)
Change(k, type, s) ==
    \/ s = store
    \/ \E e : s = [store EXCEPT ![k] = e] /\ (e = NULL \/ (Good(e) /\ e.type = type))

Types == {"string", "hash", "list", "set"}

-----------------------------------------------------------------------------
(* Numbers. *)
LEMMA IntsAre ==
    /\ IntMax \in Nat /\ 1 <= IntMax /\ {-1, 0, 1} \subseteq Ints /\ Ints \subseteq Int
    /\ \A x \in Int : ToInt(x) \in Ints
<1>1. IntMax \in Nat /\ 1 <= IntMax
  BY IntAssumption
<1>2. ASSUME NEW x \in Int PROVE ToInt(x) \in Ints
  <2> DEFINE y == x + IntMax + 1
             m == 2 * (IntMax + 1)
  <2>1. y \in Int /\ m \in Nat /\ m > 0
    BY <1>1
  <2>2. y % m \in 0 .. m - 1
    <3> HIDE DEF y, m
    <3> QED  BY <2>1
  <2> QED  BY <1>1, <2>2 DEF ToInt, Ints
<1> QED  BY <1>1, <1>2 DEF Ints

(* The texts that read as numbers. *)
LEMMA NumeralsAre ==
    /\ \A v : is_number(v) => v \in Texts /\ strtoi(v) \in Ints
    /\ \A n \in Ints : intostr(n) \in Texts /\ is_number(intostr(n)) /\ strtoi(intostr(n)) = n
<1>1. ASSUME NEW v, is_number(v) PROVE v \in Texts /\ strtoi(v) \in Ints
  <2>1. CASE v \in {EMPTY, MINUS}
    BY <2>1, IntsAre DEF Texts, Numerals, strtoi
  <2>2. CASE v \notin {EMPTY, MINUS}
    <3>1. v.int \in Ints
      BY <1>1, <2>2, KeyspaceAssumption DEF is_number, Numerals
    <3> QED  BY <1>1, <2>2, <3>1 DEF is_number, Texts, strtoi
  <2> QED  BY <2>1, <2>2
<1>2. ASSUME NEW n \in Ints
      PROVE  intostr(n) \in Texts /\ is_number(intostr(n)) /\ strtoi(intostr(n)) = n
  <2>1. intostr(n).int = n /\ intostr(n) \in Numerals
    BY DEF intostr, Numerals
  <2>2. intostr(n) \notin {EMPTY, MINUS}
    <3>1. intostr(n) \in [int : Ints, zeros : {0, 1}]
      BY DEF intostr
    <3> QED  BY <3>1, KeyspaceAssumption
  <2> QED  BY <2>1, <2>2 DEF is_number, Texts, strtoi
<1> QED  BY <1>1, <1>2

(* Finite sets of names. *)
LEMMA NamesAre ==
    ASSUME NEW S, S \subseteq Names
    PROVE  /\ IsFiniteSet(S) /\ Cardinality(S) \in Nat
           /\ S # {} => Cardinality(S) \in 1 .. Cardinality(Names)
<1>1. IsFiniteSet(Names) /\ Cardinality(Names) \in Nat
  BY KeyspaceAssumption, FS_CardinalityType
<1>2. IsFiniteSet(S) /\ Cardinality(S) \in Nat /\ Cardinality(S) <= Cardinality(Names)
  BY <1>1, FS_Subset, FS_CardinalityType
<1>3. S # {} => Cardinality(S) # 0
  BY <1>2, FS_EmptySet
<1> QED  BY <1>1, <1>2, <1>3

-----------------------------------------------------------------------------
(* What an entry is. *)
LEMMA GoodIs ==
    ASSUME NEW e, Good(e)
    PROVE  /\ e.type \in Types /\ e # NULL
           /\ e.type = "string" => e.value \in Texts
           /\ e.type = "hash" => /\ e.fields \in Maps /\ Fields(e) # {}
                                 /\ e.used = Cardinality(Fields(e))
           /\ e.type = "list" => e.elements \in Seq(Names) /\ e.elements # <<>>
           /\ e.type = "set" => /\ e.members \subseteq Names /\ e.members # {}
                                /\ e.used = Cardinality(e.members)
<1>1. e \in Entry /\ e # NULL
  BY KeyspaceAssumption DEF Good
<1>2. /\ e.type \in Types
      /\ e.type = "string" => e.value \in Texts
      /\ e.type = "hash" => e.fields \in Maps
      /\ e.type = "list" => e.elements \in Seq(Names)
      /\ e.type = "set" => e.members \subseteq Names
  BY <1>1 DEF Entry, Types, Maps
<1> QED  BY <1>1, <1>2 DEF Good

LEMMA StringIsGood ==
    ASSUME NEW v \in Texts
    PROVE  Good(String(v)) /\ String(v).type = "string"
BY DEF Good, String, Entry

LEMMA HashIsGood ==
    ASSUME NEW f \in Maps, NEW u, Fields(Hash(f, u)) # {},
           u = Cardinality(Fields(Hash(f, u)))
    PROVE  Good(Hash(f, u)) /\ Hash(f, u).type = "hash"
<1> DEFINE e == Hash(f, u)
<1>1. Fields(e) \subseteq Names
  BY DEF Fields
<1>2. u \in 1 .. Cardinality(Names)
  BY <1>1, NamesAre
<1>3. /\ e.type = "hash" /\ e.used = u
      /\ e \in [type : {"hash"}, fields : [Names -> Texts \cup {NULL}],
                used : 1 .. Cardinality(Names)]
  BY <1>2 DEF Hash, Maps
<1>4. e \in Entry
  BY <1>3 DEF Entry
<1> QED  BY <1>3, <1>4 DEF Good

LEMMA ListIsGood ==
    ASSUME NEW s \in Seq(Names), s # <<>>
    PROVE  /\ Good(List(s)) /\ List(s).type = "list" /\ List(s).elements = s
           /\ List(s) # NULL
<1>1. List(s).type = "list" /\ List(s).elements = s /\ List(s) \in Entry
  BY DEF List, Entry
<1> QED  BY <1>1, KeyspaceAssumption DEF Good

LEMMA SetIsGood ==
    ASSUME NEW M, M \subseteq Names, M # {}, NEW u, u = Cardinality(M)
    PROVE  Good(Set(M, u)) /\ Set(M, u).type = "set"
<1>1. u \in 1 .. Cardinality(Names)
  BY NamesAre
<1>2. /\ Set(M, u).type = "set" /\ Set(M, u).members = M /\ Set(M, u).used = u
      /\ Set(M, u) \in [type : {"set"}, members : SUBSET Names, used : 1 .. Cardinality(Names)]
  BY <1>1 DEF Set
<1>3. Set(M, u) \in Entry
  BY <1>2 DEF Entry
<1> QED  BY <1>2, <1>3 DEF Good

LEMMA TypeIs ==
    ASSUME Counted(store), NEW k \in Keys, NEW type \in Types,
           is_type(k, type), htable_exists(k)
    PROVE  Good(store[k]) /\ store[k].type = type /\ store[k] # NULL
<1>1. Good(store[k]) /\ store[k] # NULL
  BY DEF Counted, htable_exists
<1>2. store[k].type \in Types
  BY <1>1, GoodIs
<1> QED  BY <1>1, <1>2 DEF is_type, htable_type, Types

(* A change of an entry keeps the keyspace counted and typed. *)
LEMMA ChangeKeeps ==
    ASSUME Counted(store), NEW k \in Keys, NEW type \in Types,
           is_type(k, type), Change(k, type, store')
    PROVE  Counted(store') /\ is_type(k, type)' /\ Kept
<1>1. CASE store' = store
  BY <1>1 DEF Counted, is_type, htable_type, Kept
<1>2. ASSUME NEW e, store' = [store EXCEPT ![k] = e], e = NULL \/ (Good(e) /\ e.type = type)
      PROVE  Counted(store') /\ is_type(k, type)' /\ Kept
  <2>1. /\ store'[k] = e /\ DOMAIN store' = Keys
        /\ \A x \in Keys \ {k} : store'[x] = store[x]
    BY <1>2 DEF Counted
  <2>2. store' \in [Keys -> Entry \cup {NULL}]
    <3>1. e \in Entry \cup {NULL}
      BY <1>2 DEF Good
    <3> QED  BY <1>2, <3>1 DEF Counted
  <2>3. Counted(store')
    BY <1>2, <2>1, <2>2 DEF Counted
  <2>4. is_type(k, type)'
    BY <1>2, <2>1 DEF is_type, htable_type
  <2>5. Kept
    <3>1. store[k] # NULL => store[k].type = type
      BY TypeIs DEF htable_exists
    <3> QED  BY <1>2, <2>1, <3>1 DEF Kept
  <2> QED  BY <2>3, <2>4, <2>5
<1> QED  BY <1>1, <1>2 DEF Change

(* The size of what a change leaves. *)
LEMMA SizeIs ==
    ASSUME NEW s, Counted(s), NEW k \in Keys, s[k] # NULL => s[k].type # "string"
    PROVE  Size(s, k) \in Nat
<1>1. CASE s[k] = NULL
  BY <1>1 DEF Size
<1>2. CASE s[k] # NULL
  <2>1. Good(s[k])
    BY <1>2 DEF Counted
  <2>2. CASE s[k].type = "hash"
    <3>1. Fields(s[k]) \subseteq Names
      BY DEF Fields
    <3> QED  BY <1>2, <2>2, <3>1, NamesAre DEF Size
  <2>3. CASE s[k].type = "list"
    <3>1. s[k].elements \in Seq(Names)
      BY <2>1, <2>3, GoodIs
    <3>2. Len(s[k].elements) \in Nat
      BY <3>1
    <3> QED  BY <1>2, <2>3, <3>2 DEF Size
  <2>4. CASE s[k].type = "set"
    <3>1. s[k].members \subseteq Names
      BY <2>1, <2>4, GoodIs
    <3> QED  BY <1>2, <2>4, <3>1, NamesAre DEF Size
  <2> QED  BY <2>1, <2>2, <2>3, <2>4, GoodIs DEF Types
<1> QED  BY <1>1, <1>2

-----------------------------------------------------------------------------
(* The functions that write, as changes of one entry, and what they return.  *)
LEMMA SetChanges ==
    ASSUME NEW k \in Keys, NEW v \in Texts
    PROVE  Change(k, "string", htable_set(k, v).store)
BY StringIsGood DEF Change, htable_set, Stored, Outcome

LEMMA DelChanges ==
    ASSUME NEW k \in Keys
    PROVE  \/ /\ store[k] = NULL
              /\ htable_del(k).store = store /\ htable_del(k).res = 0
           \/ /\ store[k] # NULL
              /\ htable_del(k).store = [store EXCEPT ![k] = NULL] /\ htable_del(k).res = 1
BY DEF htable_del, htable_exists, Deleted, Stored, Unchanged, Outcome

(* The hash under k, or a fresh one. *)
LEMMA HashIs ==
    ASSUME Counted(store), NEW k \in Keys, is_type(k, "hash"), NEW h, h = HashOf(k)
    PROVE  /\ h.fields \in Maps /\ h.used = Cardinality(Fields(h))
           /\ IsFiniteSet(Fields(h)) /\ Fields(h) \subseteq Names
           /\ Cardinality(Fields(h)) \in Nat /\ Size(store, k) = Cardinality(Fields(h))
<1>1. IsFiniteSet(Fields(h)) /\ Cardinality(Fields(h)) \in Nat /\ Fields(h) \subseteq Names
  <2>1. Fields(h) \subseteq Names
    BY DEF Fields
  <2> QED  BY <2>1, NamesAre
<1>2. CASE htable_exists(k)
  <2>1. Good(store[k]) /\ store[k].type = "hash" /\ store[k] # NULL
    BY <1>2, TypeIs DEF Types
  <2> QED  BY <1>1, <1>2, <2>1, GoodIs DEF HashOf, Size
<1>3. CASE ~ htable_exists(k)
  <2>1. h = [type |-> "hash", fields |-> [n \in Names |-> NULL], used |-> 0]
    BY <1>3 DEF HashOf, Hash, NoFields
  <2>2. h.fields \in Maps /\ Fields(h) = {}
    BY <2>1 DEF Fields, Maps
  <2> QED  BY <1>1, <1>3, <2>1, <2>2, FS_EmptySet DEF Size, htable_exists
<1> QED  BY <1>2, <1>3

(* A hash with one field changed. *)
LEMMA FieldChanges ==
    ASSUME NEW h, h.fields \in Maps, NEW f \in Names, NEW v \in Texts \cup {NULL}, NEW u,
           NEW e, e = Hash([h.fields EXCEPT ![f] = v], u)
    PROVE  /\ e.fields \in Maps /\ e.used = u /\ e.type = "hash" /\ e = Hash(e.fields, u)
           /\ v = NULL => Fields(e) = Fields(h) \ {f}
           /\ v # NULL => Fields(e) = Fields(h) \cup {f}
<1>1. /\ e.type = "hash" /\ e.fields = [h.fields EXCEPT ![f] = v] /\ e.used = u
      /\ e = Hash(e.fields, u)
  BY DEF Hash
<1>2. /\ DOMAIN e.fields = Names /\ e.fields[f] = v /\ e.fields \in Maps
      /\ \A g \in Names \ {f} : e.fields[g] = h.fields[g]
  BY <1>1 DEF Maps
<1>3. v = NULL => \A g : g \in Fields(e) <=> g \in Fields(h) \ {f}
  BY <1>2 DEF Fields
<1>4. v # NULL => \A g : g \in Fields(e) <=> g \in Fields(h) \cup {f}
  BY <1>2 DEF Fields
<1> QED  BY <1>1, <1>2, <1>3, <1>4

(* The size of an entry that is stored. *)
LEMMA StoredSize ==
    ASSUME Counted(store), NEW k \in Keys, NEW e, NEW s, s = [store EXCEPT ![k] = e]
    PROVE  /\ e = NULL => Size(s, k) = 0
           /\ e # NULL /\ e.type = "hash" => Size(s, k) = Cardinality(Fields(e))
           /\ e # NULL /\ e.type = "list" => Size(s, k) = Len(e.elements)
           /\ e # NULL /\ e.type = "set" => Size(s, k) = Cardinality(e.members)
<1>1. s[k] = e
  BY DEF Counted
<1> QED  BY <1>1 DEF Size

LEMMA HsetChanges ==
    ASSUME Counted(store), NEW k \in Keys, is_type(k, "hash"), NEW f \in Names, NEW v \in Texts,
           NEW o, o = htable_hset(k, f, v)
    PROVE  /\ Change(k, "hash", o.store) /\ o.res \in Nat
           /\ Size(o.store, k) = Size(store, k) + o.res
<1>1. PICK h : h = HashOf(k)
  OBVIOUS
<1>2. PICK n : n = Bit(h.fields[f] = NULL)
  OBVIOUS
<1>3. PICK e : e = Hash([h.fields EXCEPT ![f] = v], h.used + n)
  OBVIOUS
<1>4. o.store = [store EXCEPT ![k] = e] /\ o.res = n
  BY <1>1, <1>2, <1>3 DEF htable_hset, Stored, Outcome
<1>5. /\ h.fields \in Maps /\ h.used = Cardinality(Fields(h))
      /\ IsFiniteSet(Fields(h)) /\ Fields(h) \subseteq Names
      /\ Cardinality(Fields(h)) \in Nat /\ Size(store, k) = Cardinality(Fields(h))
  BY <1>1, HashIs
<1>6. v # NULL
  BY KeyspaceAssumption
<1>7. /\ e.fields \in Maps /\ e.used = h.used + n /\ e.type = "hash"
      /\ e = Hash(e.fields, h.used + n) /\ Fields(e) = Fields(h) \cup {f}
  BY <1>3, <1>5, <1>6, FieldChanges
<1>8. n = IF f \in Fields(h) THEN 0 ELSE 1
  BY <1>2 DEF Bit, Fields
<1>9. Cardinality(Fields(e)) = Cardinality(Fields(h)) + n
  <2>1. Cardinality(Fields(h) \cup {f}) =
            IF f \in Fields(h) THEN Cardinality(Fields(h)) ELSE Cardinality(Fields(h)) + 1
    BY <1>5, FS_AddElement
  <2> QED  BY <1>5, <1>7, <1>8, <2>1
<1>10. Good(e)
  <2>1. Fields(e) # {} /\ h.used + n = Cardinality(Fields(e))
    BY <1>5, <1>7, <1>9
  <2> QED  BY <1>7, <2>1, HashIsGood
<1>11. Size(o.store, k) = Cardinality(Fields(e))
  <2>1. e # NULL
    BY <1>10, GoodIs
  <2>2. PICK s : s = o.store
    OBVIOUS
  <2>3. Size(s, k) = Cardinality(Fields(e))
    BY <1>4, <1>7, <2>1, <2>2, StoredSize
  <2> QED  BY <2>2, <2>3
<1> QED  BY <1>4, <1>5, <1>7, <1>8, <1>9, <1>10, <1>11 DEF Change

LEMMA HdelChanges ==
    ASSUME Counted(store), NEW k \in Keys, is_type(k, "hash"), NEW f \in Names,
           NEW o, o = htable_hdel(k, f)
    PROVE  /\ Change(k, "hash", o.store) /\ o.res \in Nat
           /\ Size(o.store, k) = Size(store, k) - o.res
<1>1. PICK h : h = HashOf(k)
  OBVIOUS
<1>2. PICK n : n = Bit(h.fields[f] # NULL)
  OBVIOUS
<1>3. PICK e : e = Hash([h.fields EXCEPT ![f] = NULL], h.used - n)
  OBVIOUS
<1>5. /\ h.fields \in Maps /\ h.used = Cardinality(Fields(h))
      /\ IsFiniteSet(Fields(h)) /\ Fields(h) \subseteq Names
      /\ Cardinality(Fields(h)) \in Nat /\ Size(store, k) = Cardinality(Fields(h))
  BY <1>1, HashIs
<1>6. n = IF f \in Fields(h) THEN 1 ELSE 0
  BY <1>2 DEF Bit, Fields
<1>7. /\ e.fields \in Maps /\ e.used = h.used - n /\ e.type = "hash"
      /\ e = Hash(e.fields, h.used - n) /\ Fields(e) = Fields(h) \ {f}
  <2>1. PICK v : v = NULL
    OBVIOUS
  <2>2. v \in Texts \cup {NULL} /\ e = Hash([h.fields EXCEPT ![f] = v], h.used - n)
    BY <1>3, <2>1
  <2> QED  BY <1>5, <2>1, <2>2, FieldChanges
<1>8. Cardinality(Fields(e)) = Cardinality(Fields(h)) - n
  <2>1. Cardinality(Fields(h) \ {f}) =
            IF f \in Fields(h) THEN Cardinality(Fields(h)) - 1 ELSE Cardinality(Fields(h))
    BY <1>5, FS_RemoveElement
  <2> QED  BY <1>5, <1>6, <1>7, <2>1
<1>9. CASE ~ htable_exists(k)
  <2>1. o.store = store /\ o.res = 0
    BY <1>9 DEF htable_hdel, Unchanged, Outcome
  <2> QED  BY <1>5, <2>1 DEF Change
<1>10. CASE htable_exists(k) /\ h.used - n = 0
  <2>1. o.store = [store EXCEPT ![k] = NULL] /\ o.res = n
    BY <1>1, <1>2, <1>10 DEF htable_hdel, Deleted, Stored, Outcome
  <2>2. Size(o.store, k) = 0
    BY <2>1, StoredSize
  <2> QED  BY <1>5, <1>6, <1>10, <2>1, <2>2 DEF Change
<1>11. CASE htable_exists(k) /\ h.used - n # 0
  <2>1. o.store = [store EXCEPT ![k] = e] /\ o.res = n
    BY <1>1, <1>2, <1>3, <1>11 DEF htable_hdel, Stored, Outcome
  <2>2. Fields(e) # {} /\ h.used - n = Cardinality(Fields(e))
    BY <1>5, <1>8, <1>11, FS_EmptySet
  <2>3. Good(e)
    BY <1>7, <2>2, HashIsGood
  <2>4. Size(o.store, k) = Cardinality(Fields(e))
    <3>1. e # NULL
      BY <2>3, GoodIs
    <3>2. PICK s : s = o.store
      OBVIOUS
    <3>3. Size(s, k) = Cardinality(Fields(e))
      BY <1>7, <2>1, <3>1, <3>2, StoredSize
    <3> QED  BY <3>2, <3>3
  <2> QED  BY <1>5, <1>6, <1>7, <1>8, <2>1, <2>3, <2>4 DEF Change
<1> QED  BY <1>9, <1>10, <1>11

(* The members under k, or none. *)
LEMMA SetIs ==
    ASSUME Counted(store), NEW k \in Keys, is_type(k, "set"), NEW M, M = SetOf(k).members
    PROVE  /\ M \subseteq Names /\ SetOf(k).used = Cardinality(M)
           /\ IsFiniteSet(M) /\ Cardinality(M) \in Nat /\ Size(store, k) = Cardinality(M)
<1>1. CASE htable_exists(k)
  <2>1. Good(store[k]) /\ store[k].type = "set" /\ store[k] # NULL
    BY <1>1, TypeIs DEF Types
  <2>2. M \subseteq Names /\ M = store[k].members /\ SetOf(k).used = Cardinality(M)
    BY <1>1, <2>1, GoodIs DEF SetOf
  <2> QED  BY <2>1, <2>2, NamesAre DEF Size
<1>2. CASE ~ htable_exists(k)
  <2>1. M = {} /\ SetOf(k).used = 0
    BY <1>2 DEF SetOf, Set
  <2> QED  BY <1>2, <2>1, FS_EmptySet DEF Size, htable_exists
<1> QED  BY <1>1, <1>2

LEMMA SaddChanges ==
    ASSUME Counted(store), NEW k \in Keys, is_type(k, "set"), NEW m \in Names,
           NEW o, o = htable_sadd(k, m)
    PROVE  /\ Change(k, "set", o.store) /\ o.res \in Nat
           /\ Size(o.store, k) = Size(store, k) + o.res
<1>1. PICK M : M = SetOf(k).members
  OBVIOUS
<1>2. PICK n : n = Bit(~ htable_sismember(k, m))
  OBVIOUS
<1>3. PICK e : e = Set(M \cup {m}, SetOf(k).used + n)
  OBVIOUS
<1>4. o.store = [store EXCEPT ![k] = e] /\ o.res = n
  BY <1>1, <1>2, <1>3 DEF htable_sadd, Stored, Outcome
<1>5. n = IF m \in M THEN 0 ELSE 1
  BY <1>1, <1>2 DEF Bit, htable_sismember
<1>6. /\ M \subseteq Names /\ SetOf(k).used = Cardinality(M)
      /\ IsFiniteSet(M) /\ Cardinality(M) \in Nat /\ Size(store, k) = Cardinality(M)
  BY <1>1, SetIs
<1>7. Cardinality(M \cup {m}) = IF m \in M THEN Cardinality(M) ELSE Cardinality(M) + 1
  BY <1>6, FS_AddElement
<1>8. /\ M \cup {m} \subseteq Names /\ M \cup {m} # {}
      /\ SetOf(k).used + n = Cardinality(M \cup {m})
  BY <1>5, <1>6, <1>7
<1>9. Good(e) /\ e.type = "set" /\ e.members = M \cup {m}
  <2>1. e.members = M \cup {m}
    BY <1>3 DEF Set
  <2> QED  BY <1>3, <1>8, <2>1, SetIsGood
<1>10. Size(o.store, k) = Cardinality(M \cup {m})
  <2>1. e # NULL
    BY <1>9, GoodIs
  <2>2. PICK s : s = o.store
    OBVIOUS
  <2>3. Size(s, k) = Cardinality(e.members)
    BY <1>4, <1>9, <2>1, <2>2, StoredSize
  <2> QED  BY <1>9, <2>2, <2>3
<1> QED  BY <1>4, <1>5, <1>6, <1>7, <1>9, <1>10 DEF Change

LEMMA SremChanges ==
    ASSUME Counted(store), NEW k \in Keys, is_type(k, "set"), NEW m \in Names,
           NEW o, o = htable_srem(k, m)
    PROVE  /\ Change(k, "set", o.store) /\ o.res \in Nat
           /\ Size(o.store, k) = Size(store, k) - o.res
<1>1. PICK M : M = SetOf(k).members
  OBVIOUS
<1>2. PICK n : n = Bit(htable_sismember(k, m))
  OBVIOUS
<1>3. PICK e : e = Set(M \ {m}, SetOf(k).used - n)
  OBVIOUS
<1>4. n = IF m \in M THEN 1 ELSE 0
  BY <1>1, <1>2 DEF Bit, htable_sismember
<1>5. /\ M \subseteq Names /\ SetOf(k).used = Cardinality(M)
      /\ IsFiniteSet(M) /\ Cardinality(M) \in Nat /\ Size(store, k) = Cardinality(M)
  BY <1>1, SetIs
<1>6. Cardinality(M \ {m}) = Cardinality(M) - n
  <2>1. Cardinality(M \ {m}) = IF m \in M THEN Cardinality(M) - 1 ELSE Cardinality(M)
    BY <1>5, FS_RemoveElement
  <2> QED  BY <1>4, <1>5, <2>1
<1>7. CASE ~ htable_exists(k)
  <2>1. o.store = store /\ o.res = 0
    BY <1>7 DEF htable_srem, Unchanged, Outcome
  <2> QED  BY <1>5, <2>1 DEF Change
<1>8. CASE htable_exists(k) /\ SetOf(k).used - n = 0
  <2>1. o.store = [store EXCEPT ![k] = NULL] /\ o.res = n
    BY <1>2, <1>8 DEF htable_srem, Deleted, Stored, Outcome
  <2>2. Size(o.store, k) = 0
    BY <2>1, StoredSize
  <2> QED  BY <1>4, <1>5, <1>8, <2>1, <2>2 DEF Change
<1>9. CASE htable_exists(k) /\ SetOf(k).used - n # 0
  <2>1. o.store = [store EXCEPT ![k] = e] /\ o.res = n
    BY <1>1, <1>2, <1>3, <1>9 DEF htable_srem, Stored, Outcome
  <2>2. /\ M \ {m} \subseteq Names /\ M \ {m} # {}
        /\ SetOf(k).used - n = Cardinality(M \ {m})
    BY <1>5, <1>6, <1>9, FS_EmptySet
  <2>3. Good(e) /\ e.type = "set" /\ e.members = M \ {m}
    <3>1. e.members = M \ {m}
      BY <1>3 DEF Set
    <3> QED  BY <1>3, <2>2, <3>1, SetIsGood
  <2>4. Size(o.store, k) = Cardinality(M \ {m})
    BY <2>1, <2>3, StoredSize, GoodIs
  <2> QED  BY <1>4, <1>5, <1>6, <2>1, <2>3, <2>4 DEF Change
<1> QED  BY <1>7, <1>8, <1>9

-----------------------------------------------------------------------------
(* The elements under k, or none. *)
LEMMA ElementsAre ==
    ASSUME Counted(store), NEW k \in Keys, is_type(k, "list"), NEW s, s = ElementsOf(k)
    PROVE  /\ s \in Seq(Names) /\ Size(store, k) = Len(s) /\ Len(s) \in Nat
           /\ htable_exists(k) => s # <<>>
<1>1. CASE htable_exists(k)
  <2>1. Good(store[k]) /\ store[k].type = "list" /\ store[k] # NULL
    BY <1>1, TypeIs DEF Types
  <2>2. s \in Seq(Names) /\ s = store[k].elements /\ s # <<>>
    BY <1>1, <2>1, GoodIs DEF ElementsOf
  <2>3. Size(store, k) = Len(s)
    BY <2>1, <2>2 DEF Size
  <2> QED  BY <2>2, <2>3
<1>2. CASE ~ htable_exists(k)
  <2>1. s = <<>>
    BY <1>2 DEF ElementsOf
  <2>2. Size(store, k) = 0
    BY <1>2 DEF Size, htable_exists
  <2>3. <<>> \in Seq(Names) /\ Len(<<>>) = 0
    OBVIOUS
  <2> QED  BY <1>2, <2>1, <2>2, <2>3
<1> QED  BY <1>1, <1>2

LEMMA WithElementsChanges ==
    ASSUME NEW k \in Keys, NEW s \in Seq(Names), NEW r
    PROVE  Change(k, "list", WithElements(k, s, r).store)
<1>1. CASE s = <<>>
  BY <1>1 DEF WithElements, Deleted, Stored, Outcome, Change
<1>2. CASE s # <<>>
  BY <1>2, ListIsGood DEF WithElements, Stored, Outcome, Change
<1> QED  BY <1>1, <1>2

LEMMA PushChanges ==
    ASSUME Counted(store), NEW k \in Keys, is_type(k, "list"), NEW v \in Names, NEW dir,
           NEW o, o = htable_push(k, v, dir)
    PROVE  /\ Change(k, "list", o.store) /\ o.res \in Nat
           /\ o.res = Size(o.store, k)
<1>1. PICK s : s = ElementsOf(k)
  OBVIOUS
<1>2. PICK t : t = IF dir = "left" THEN <<v>> \o s ELSE Append(s, v)
  OBVIOUS
<1>3. s \in Seq(Names) /\ Len(s) \in Nat
  BY <1>1, ElementsAre
<1>4. t \in Seq(Names) /\ t # <<>> /\ Len(t) \in Nat
  <2>1. <<v>> \in Seq(Names) /\ Len(<<v>>) = 1
    OBVIOUS
  <2>2. <<v>> \o s \in Seq(Names) /\ Len(<<v>> \o s) = 1 + Len(s)
    BY <1>3, <2>1, ConcatProperties
  <2>3. Append(s, v) \in Seq(Names) /\ Len(Append(s, v)) = Len(s) + 1
    BY <1>3, AppendProperties
  <2>4. t \in Seq(Names) /\ Len(t) = Len(s) + 1
    BY <1>2, <1>3, <2>2, <2>3
  <2> QED  BY <1>3, <2>4, EmptySeq
<1>5. PICK e : e = List(t)
  OBVIOUS
<1>6. o.store = [store EXCEPT ![k] = e] /\ o.res = Len(t)
  BY <1>1, <1>2, <1>5 DEF htable_push, Stored, Outcome
<1>7. Good(e) /\ e.type = "list" /\ e.elements = t /\ e # NULL
  BY <1>4, <1>5, ListIsGood
<1>8. PICK u : u = o.store
  OBVIOUS
<1>9. Size(u, k) = Len(t)
  BY <1>6, <1>7, <1>8, StoredSize
<1> QED  BY <1>4, <1>6, <1>7, <1>8, <1>9 DEF Change

LEMMA PopChanges ==
    ASSUME Counted(store), NEW k \in Keys, is_type(k, "list"), NEW dir
    PROVE  Change(k, "list", htable_pop(k, dir).store)
<1>1. PICK s : s = ElementsOf(k)
  OBVIOUS
<1>2. CASE ~ htable_exists(k)
  BY <1>2 DEF htable_pop, Unchanged, Outcome, Change
<1>3. CASE htable_exists(k)
  <2>1. s \in Seq(Names) /\ s # <<>> /\ Len(s) \in Nat
    BY <1>1, <1>3, ElementsAre
  <2>2. \/ htable_pop(k, dir).store = WithElements(k, Tail(s), Head(s)).store
        \/ htable_pop(k, dir).store = WithElements(k, Front(s), Last(s)).store
    BY <1>1, <1>3 DEF htable_pop
  <2>3. Tail(s) \in Seq(Names)
    BY <2>1, HeadTailProperties
  <2>4. Front(s) \in Seq(Names)
    <3>1. Len(s) - 1 \in Int /\ \A i \in 1 .. Len(s) - 1 : s[i] \in Names
      BY <2>1
    <3>2. SubSeq(s, 1, Len(s) - 1) \in Seq(Names)
      BY <2>1, <3>1, SubSeqProperties
    <3> QED  BY <3>2 DEF Front
  <2> QED  BY <2>2, <2>3, <2>4, WithElementsChanges
<1> QED  BY <1>2, <1>3

LEMMA LsetChanges ==
    ASSUME Counted(store), NEW k \in Keys, is_type(k, "list"), NEW i, NEW v \in Names,
           htable_exists(k), i \in DOMAIN ElementsOf(k)
    PROVE  Change(k, "list", htable_lset(k, i, v).store)
<1>1. PICK s : s = ElementsOf(k)
  OBVIOUS
<1>2. PICK t : t = [s EXCEPT ![i] = v]
  OBVIOUS
<1>3. s \in Seq(Names) /\ i \in 1 .. Len(s) /\ Len(s) \in Nat
  BY <1>1, ElementsAre
<1>4. t \in Seq(Names) /\ Len(t) = Len(s)
  BY <1>2, <1>3, ExceptSeq
<1>5. t # <<>>
  BY <1>3, <1>4, EmptySeq
<1>6. htable_lset(k, i, v).store = [store EXCEPT ![k] = List(t)]
  BY <1>1, <1>2 DEF htable_lset, Stored, Outcome
<1> QED  BY <1>4, <1>5, <1>6, ListIsGood DEF Change

(* The positions of a set are its first, its second, ..., its last. *)
LEMMA PositionsAre ==
    ASSUME NEW n \in Nat, NEW S, S \subseteq 1 .. n
    PROVE  /\ Cardinality(S) \in Nat
           /\ \A j \in 1 .. Cardinality(S) : \E i \in S : Cardinality(S \cap 1 .. i) = j
<1> DEFINE C(i) == Cardinality(S \cap 1 .. i)
           K == {i \in Nat : \A j \in 1 .. C(i) : \E x \in S : C(x) = j}
<1>1. \A i \in Nat : IsFiniteSet(S \cap 1 .. i) /\ C(i) \in Nat
  <2> SUFFICES ASSUME NEW i \in Nat PROVE IsFiniteSet(S \cap 1 .. i) /\ C(i) \in Nat
    OBVIOUS
  <2>1. IsFiniteSet(1 .. i)
    BY FS_Interval
  <2>2. IsFiniteSet(S \cap 1 .. i)
    BY <2>1, FS_Subset
  <2> QED  BY <2>2, FS_CardinalityType
<1>2. 0 \in K
  <2>1. S \cap 1 .. 0 = {}
    OBVIOUS
  <2>2. C(0) = 0
    BY <2>1, FS_EmptySet
  <2> HIDE DEF C
  <2> QED  BY <2>2
<1>3. ASSUME NEW i \in Nat, i \in K PROVE i + 1 \in K
  <2>1. CASE i + 1 \notin S
    <3>1. S \cap 1 .. i + 1 = S \cap 1 .. i
      BY <2>1
    <3>2. C(i + 1) = C(i)
      BY <3>1
    <3> HIDE DEF C
    <3> QED  BY <1>3, <3>2
  <2>2. CASE i + 1 \in S
    <3>1. S \cap 1 .. i + 1 = (S \cap 1 .. i) \cup {i + 1} /\ i + 1 \notin S \cap 1 .. i
      BY <2>2
    <3>2. C(i + 1) = C(i) + 1
      BY <1>1, <3>1, FS_AddElement
    <3> HIDE DEF C
    <3>3. ASSUME NEW j \in 1 .. C(i + 1) PROVE \E x \in S : C(x) = j
      <4>1. j \in 1 .. C(i) \/ j = C(i + 1)
        <5>1. C(i) \in Nat
          BY <1>1
        <5>2. PICK c, d : c \in Nat /\ c = C(i) /\ d = C(i + 1) /\ d = c + 1
          BY <3>2, <5>1
        <5> QED  BY <5>2
      <4> QED  BY <1>3, <2>2, <4>1
    <3> QED  BY <3>3
  <2> QED  BY <2>1, <2>2
<1>4. Nat \subseteq K
  <2> HIDE DEF K
  <2> QED  BY <1>2, <1>3, SetInduction
<1>5. S \cap 1 .. n = S
  OBVIOUS
<1>6. n \in K /\ C(n) = Cardinality(S)
  BY <1>4, <1>5
<1> HIDE DEF C
<1>7. \A j \in 1 .. Cardinality(S) : \E i \in S : C(i) = j
  BY <1>6
<1> QED  BY <1>1, <1>6, <1>7 DEF C

LEMMA LremChanges ==
    ASSUME Counted(store), NEW k \in Keys, is_type(k, "list"), NEW count, NEW v
    PROVE  Change(k, "list", htable_lrem(k, count, v).store)
<1>1. PICK s : s = ElementsOf(k)
  OBVIOUS
<1>2. PICK gone : gone = Removed(s, count, v)
  OBVIOUS
<1>3. PICK kept : kept = DOMAIN s \ gone
  OBVIOUS
<1> DEFINE At(n) == CHOOSE i \in kept : Cardinality(kept \cap 1 .. i) = n
           rest == [n \in 1 .. Cardinality(kept) |-> s[At(n)]]
<1>4. CASE ~ htable_exists(k)
  BY <1>4 DEF htable_lrem, Unchanged, Outcome, Change
<1>5. CASE htable_exists(k)
  <2>1. htable_lrem(k, count, v).store = WithElements(k, rest, Cardinality(gone)).store
    BY <1>1, <1>2, <1>3, <1>5 DEF htable_lrem
  <2>2. s \in Seq(Names) /\ Len(s) \in Nat
    BY <1>1, ElementsAre
  <2>3. kept \subseteq 1 .. Len(s) /\ \A i \in kept : s[i] \in Names
    BY <1>3, <2>2
  <2>4. /\ Cardinality(kept) \in Nat
        /\ \A n \in 1 .. Cardinality(kept) : \E i \in kept : Cardinality(kept \cap 1 .. i) = n
    BY <2>2, <2>3, PositionsAre
  <2>5. \A n \in 1 .. Cardinality(kept) : At(n) \in kept
    BY <2>4
  <2> HIDE DEF At
  <2>6. \A n \in 1 .. Cardinality(kept) : s[At(n)] \in Names
    BY <2>3, <2>5
  <2>7. rest \in Seq(Names)
    BY <2>4, <2>6
  <2> HIDE DEF rest
  <2> QED  BY <2>1, <2>7, WithElementsChanges
<1> QED  BY <1>4, <1>5

-----------------------------------------------------------------------------
(* The steps. *)
CommandNames == Commands \cup Constant \cup {"argc"}

LEMMA InitIsGood == Init => IInv
<1> SUFFICES ASSUME Init PROVE IInv
  OBVIOUS
<1>1. /\ store = [k \in Keys |-> NULL] /\ pc = "idle" /\ before = store
      /\ cmd = NoCommand /\ oks = 0 /\ res = <<>> /\ reply = NoReply
  BY DEF Init
<1>2. Counted(store)
  BY <1>1 DEF Counted
<1>3. Replied
  BY <1>1 DEF Replied, NoReply, Reply
<1> QED  BY <1>1, <1>2, <1>3 DEF IInv, Loop, Rest

(* A command ends: nothing is in progress, and before is the store.          *)
LEMMA AnswerKeeps ==
    ASSUME Counted(store'), before' = store', NEW op \in CommandNames, NEW k \in Keys \cup {NULL},
           NEW tag, NEW val, Answer(op, k, tag, val)
    PROVE  IInv'
<1>1. /\ reply' = [op |-> op, key |-> k, tag |-> tag, val |-> val]
      /\ pc' = "idle" /\ cmd' = NoCommand /\ oks' = 0 /\ res' = <<>>
  BY DEF Answer, Reply
<1>2. Replied'
  BY <1>1 DEF Replied, CommandNames
<1>3. Loop' /\ Rest'
  BY <1>1 DEF Loop, Rest, NoCommand
<1> QED  BY <1>1, <1>2, <1>3 DEF IInv

LEMMA SayKeeps ==
    ASSUME IInv, pc # "loop", NEW op \in CommandNames, NEW k \in Keys \cup {NULL},
           NEW tag, NEW val, Say(op, k, tag, val)
    PROVE  IInv' /\ Kept
<1>1. store' = store /\ before' = before /\ Answer(op, k, tag, val)
  BY DEF Say
<1>2. Counted(store') /\ before' = store'
  BY <1>1 DEF IInv, Rest
<1> QED  BY <1>1, <1>2, AnswerKeeps DEF Kept

(* A command that ends with a change of its key. *)
LEMMA WriteKeeps ==
    ASSUME IInv, NEW k \in Keys, NEW type \in Types,
           is_type(k, type), Change(k, type, store'), before' = store',
           NEW op \in CommandNames, NEW tag, NEW val, Answer(op, k, tag, val)
    PROVE  IInv' /\ Kept
<1>1. Counted(store') /\ Kept
  BY ChangeKeeps DEF IInv
<1> QED  BY <1>1, AnswerKeeps

(* SET may replace an entry of another type. *)
LEMMA SetKeeps ==
    ASSUME IInv, NEW k \in Keys, NEW v \in Texts, exec_set(k, v)
    PROVE  IInv' /\ Kept
<1>1. /\ store' = [store EXCEPT ![k] = String(v)] /\ before' = store' /\ pc = "idle"
      /\ Answer("set", k, "ok", {htable_set(k, v).res})
  BY DEF exec_set, Write, htable_set, Stored, Outcome
<1>2. Good(String(v)) /\ String(v) \in Entry
  BY StringIsGood DEF Good
<1>3. store' \in [Keys -> Entry \cup {NULL}] /\ DOMAIN store' = Keys
  BY <1>1, <1>2 DEF IInv, Counted
<1>4. Counted(store')
  BY <1>1, <1>2, <1>3 DEF IInv, Counted
<1>5. reply'.op = "set"
  BY <1>1 DEF Answer, Reply
<1>6. IInv'
  <2>1. "set" \in CommandNames
    BY DEF CommandNames, Commands
  <2> QED  BY <1>1, <1>4, <2>1, AnswerKeeps
<1> QED  BY <1>1, <1>5, <1>6 DEF Kept

LEMMA IncrbyKeeps ==
    ASSUME IInv, NEW op \in {"incr", "decr", "incrby", "decrby"}, NEW k \in Keys,
           NEW sign \in {-1, 1}, NEW by, exec_incrby(op, k, sign, by)
    PROVE  IInv' /\ Kept
<1>1. op \in CommandNames
  BY DEF CommandNames, Commands
<1>2. PICK old : old = htable_get(k)
  OBVIOUS
<1> DEFINE new == IF old = NULL THEN IF op = "decr" THEN -1 ELSE strtoi(by)
                  ELSE ToInt(strtoi(old) + sign * strtoi(by))
<1>3. \/ is_type(k, "string") /\ is_number(by) /\ (old = NULL \/ is_number(old))
         /\ store' = htable_set(k, intostr(new)).store /\ before' = store'
         /\ Answer(op, k, "int", {new})
      \/ \E tag : Say(op, k, tag, {})
      \/ pc' = "crashed" /\ UNCHANGED <<store, before, cmd, oks, res, reply>>
  BY <1>2 DEF exec_incrby, Typed, WrongType
<1>4. pc # "loop"
  BY DEF exec_incrby, Typed
<1>5. CASE \E tag : Say(op, k, tag, {})
  BY <1>1, <1>4, <1>5, SayKeeps
<1>6. CASE pc' = "crashed" /\ UNCHANGED <<store, before, cmd, oks, res, reply>>
  BY <1>4, <1>6 DEF IInv, Loop, Rest, Replied, Kept
<1>7. CASE is_type(k, "string") /\ is_number(by) /\ (old = NULL \/ is_number(old))
           /\ store' = htable_set(k, intostr(new)).store /\ before' = store'
           /\ Answer(op, k, "int", {new})
  <2>2. strtoi(by) \in Ints
    BY <1>7, NumeralsAre
  <2>3. old # NULL => strtoi(old) \in Ints
    BY <1>7, NumeralsAre
  <2>4. new \in Ints
    <3>1. CASE old = NULL
      BY <2>2, <3>1, IntsAre
    <3>2. CASE old # NULL
      <4>1. strtoi(old) \in Int /\ strtoi(by) \in Int
        BY <2>2, <2>3, <3>2, IntsAre
      <4>2. sign * strtoi(by) \in Int
        BY <4>1
      <4>3. strtoi(old) + sign * strtoi(by) \in Int
        BY <4>1, <4>2
      <4> QED  BY <3>2, <4>3, IntsAre
    <3> QED  BY <3>1, <3>2
  <2> HIDE DEF new
  <2>5. Change(k, "string", store') /\ "string" \in Types
    <3>1. intostr(new) \in Texts
      BY <2>4, NumeralsAre
    <3> QED  BY <1>7, <3>1, SetChanges DEF Types
  <2> QED  BY <1>1, <1>7, <2>5, WriteKeeps
<1> HIDE DEF new
<1> QED  BY <1>3, <1>5, <1>6, <1>7

(* Commands on lists without a loop. *)
LEMMA PopKeeps ==
    ASSUME IInv, NEW k \in Keys, NEW dir, exec_pop(k, dir)
    PROVE  IInv' /\ Kept
<1>1. pc # "loop" /\ "pop" \in CommandNames
  BY DEF exec_pop, Typed, CommandNames, Commands
<1>2. CASE WrongType("pop", k, "list")
  BY <1>1, <1>2, SayKeeps DEF WrongType
<1>3. CASE is_type(k, "list") /\ Write("pop", k, "string", htable_pop(k, dir))
  <2>1. /\ store' = htable_pop(k, dir).store /\ before' = store'
        /\ \E val : Answer("pop", k, "string", val)
    BY <1>3 DEF Write
  <2> QED  BY <1>1, <1>3, <2>1, PopChanges, WriteKeeps DEF IInv, Types
<1> QED  BY <1>2, <1>3 DEF exec_pop, Typed

LEMMA LremKeeps ==
    ASSUME IInv, NEW k \in Keys, NEW n, NEW v, exec_lrem(k, n, v)
    PROVE  IInv' /\ Kept
<1>1. pc # "loop" /\ "lrem" \in CommandNames
  BY DEF exec_lrem, Typed, CommandNames, Commands
<1>2. CASE WrongType("lrem", k, "list") \/ Say("lrem", k, "intid", {})
  BY <1>1, <1>2, SayKeeps DEF WrongType
<1>3. CASE is_type(k, "list") /\ Write("lrem", k, "int", htable_lrem(k, strtoi(n), v))
  <2>1. /\ store' = htable_lrem(k, strtoi(n), v).store /\ before' = store'
        /\ \E val : Answer("lrem", k, "int", val)
    BY <1>3 DEF Write
  <2> QED  BY <1>1, <1>3, <2>1, LremChanges, WriteKeeps DEF IInv, Types
<1> QED  BY <1>2, <1>3 DEF exec_lrem, Typed, Numbered

LEMMA LsetKeeps ==
    ASSUME IInv, NEW k \in Keys, NEW id, NEW v \in Names, exec_lset(k, id, v)
    PROVE  IInv' /\ Kept
<1>1. pc # "loop" /\ "lset" \in CommandNames
  BY DEF exec_lset, Typed, CommandNames, Commands
<1>2. PICK i : i = Position(k, strtoi(id))
  OBVIOUS
<1>3. CASE WrongType("lset", k, "list") \/ Say("lset", k, "intid", {})
           \/ Say("lset", k, "value", {NULL})
  BY <1>1, <1>3, SayKeeps DEF WrongType
<1>4. CASE /\ is_type(k, "list") /\ htable_exists(k) /\ i \in DOMAIN ElementsOf(k)
           /\ Write("lset", k, "ok", htable_lset(k, i, v))
  <2>1. /\ store' = htable_lset(k, i, v).store /\ before' = store'
        /\ \E val : Answer("lset", k, "ok", val)
    BY <1>4 DEF Write
  <2> QED  BY <1>1, <1>4, <2>1, LsetChanges, WriteKeeps DEF IInv, Types
<1> QED  BY <1>2, <1>3, <1>4 DEF exec_lset, Typed, Numbered, Indexed

(* Queries. *)
LEMMA QueryKeeps ==
    ASSUME IInv, NEW op \in CommandNames, NEW k \in Keys, NEW type, NEW val, Query(op, k, type, val)
    PROVE  IInv' /\ Kept
<1>1. pc # "loop" /\ \E tag, v : Say(op, k, tag, v)
  BY DEF Query, Typed, WrongType
<1> QED  BY <1>1, SayKeeps

LEMMA LindexKeeps ==
    ASSUME IInv, NEW k \in Keys, NEW id, exec_lindex(k, id)
    PROVE  IInv' /\ Kept
<1>1. pc # "loop" /\ \E tag, val : Say("lindex", k, tag, val)
  BY DEF exec_lindex, Typed, WrongType, Numbered, Indexed
<1>2. "lindex" \in CommandNames
  BY DEF CommandNames, Commands
<1> QED  BY <1>1, <1>2, SayKeeps

LEMMA LrangeKeeps ==
    ASSUME IInv, NEW k \in Keys, NEW begin, NEW end, exec_lrange(k, begin, end)
    PROVE  IInv' /\ Kept
<1>1. pc # "loop" /\ \E tag, val : Say("lrange", k, tag, val)
  BY DEF exec_lrange, Typed, WrongType, Numbered, NoArray
<1>2. "lrange" \in CommandNames
  BY DEF CommandNames, Commands
<1> QED  BY <1>1, <1>2, SayKeeps

(* A loop begins. *)
LEMMA ItemsAre ==
    ASSUME NEW S, NEW items \in ItemsOf(S)
    PROVE  /\ items \in Seq(S) /\ Len(items) \in Nat /\ 1 <= Len(items)
           /\ DOMAIN items = 1 .. Len(items) /\ \A i \in 1 .. Len(items) : items[i] \in S
<1>1. PICK n \in 1 .. MaxItems : items \in [1 .. n -> S]
  BY DEF ItemsOf
<1>2. n \in Nat /\ 1 <= n
  BY InterpreterAssumption
<1>3. items \in Seq(S) /\ Len(items) = n
  BY <1>1, <1>2
<1> QED  BY <1>1, <1>2, <1>3

BeginsWell(op, k, items) ==
    \/ /\ op \in {"del", "exists", "mset", "mget"} /\ k = NULL /\ items \in ItemsOf(Keys)
       /\ op = "mget" => is_type(items[1], "string")
    \/ /\ op \in {"hset", "hdel", "hmget", "lpush", "rpush", "sadd", "srem", "smismember"}
       /\ k \in Keys /\ items \in ItemsOf(Names) /\ is_type(k, TypeOfLoop(op))

LEMMA BeginKeeps ==
    ASSUME IInv, NEW op, NEW k, NEW items, Begin(op, k, items), BeginsWell(op, k, items)
    PROVE  IInv' /\ Kept
<1>1. /\ store' = store /\ before' = before /\ oks' = 0 /\ res' = <<>> /\ before = store
      /\ cmd' = [op |-> op, key |-> k, items |-> items, next |-> 1]
      /\ pc' = "loop" /\ reply' = NoReply
  BY DEF Begin, IInv, Rest
<1>2. cmd'.op = op /\ cmd'.key = k /\ cmd'.items = items /\ cmd'.next = 1
  BY <1>1
<1>3. items \in ItemsOf(Keys) \/ items \in ItemsOf(Names)
  BY DEF BeginsWell
<1>4. Len(items) \in Nat /\ 1 \in 1 .. Len(items) + 1
  <2>1. Len(items) \in Nat
    BY <1>3, ItemsAre
  <2> QED  BY <2>1
<1>5. Loop'
  <2>1. CASE op \in {"del", "exists", "mset", "mget"} /\ k = NULL /\ items \in ItemsOf(Keys)
    <3>1. cmd' \in KeysLoop
      BY <1>1, <2>1 DEF KeysLoop
    <3> QED  BY <1>2, <1>4, <3>1 DEF Loop, KeysLoop
  <2>2. CASE /\ op \in {"hset", "hdel", "hmget", "lpush", "rpush", "sadd", "srem", "smismember"}
             /\ k \in Keys /\ items \in ItemsOf(Names) /\ is_type(k, TypeOfLoop(op))
    <3>1. cmd' \in NamesLoop
      BY <1>1, <2>2 DEF NamesLoop
    <3>2. is_type(k, TypeOfLoop(op))'
      BY <1>1, <2>2 DEF is_type, htable_type
    <3> QED  BY <1>2, <1>4, <3>1, <3>2 DEF Loop, NamesLoop
  <2> QED  BY <2>1, <2>2 DEF BeginsWell
<1>6. Counted(store)
  BY DEF IInv
<1>7. Sums'
  <2>1. Lost' = {} /\ IsFiniteSet({}) /\ Cardinality({}) = 0
    BY <1>1, FS_EmptySet DEF Lost
  <2>2. Found(cmd.next - 1)' = {}
    BY <1>2 DEF Found
  <2>3. op \in {"hset", "sadd", "hdel", "srem"} => Size(before, k) \in Nat
    <3> SUFFICES ASSUME op \in {"hset", "sadd", "hdel", "srem"} PROVE Size(before, k) \in Nat
      OBVIOUS
    <3>1. k \in Keys /\ is_type(k, TypeOfLoop(op)) /\ TypeOfLoop(op) \in {"hash", "set"}
      BY DEF BeginsWell, TypeOfLoop
    <3>2. store[k] # NULL => store[k].type # "string"
      <4> SUFFICES ASSUME store[k] # NULL PROVE store[k].type # "string"
        OBVIOUS
      <4>1. store[k].type = TypeOfLoop(op)
        BY <1>6, <3>1, TypeIs DEF htable_exists, Types
      <4> QED  BY <3>1, <4>1
    <3> QED  BY <1>1, <1>6, <3>1, <3>2, SizeIs
  <2>4. op \in {"hset", "sadd", "hdel", "srem"} => 0 = Size(store, k) - Size(before, k)
                                                   /\ 0 = Size(before, k) - Size(store, k)
    BY <1>1, <2>3
  <2> QED  BY <1>1, <1>2, <2>1, <2>2, <2>3, <2>4 DEF Sums
<1>8. Fills'
  <2>1. <<>> = [i \in 1 .. cmd'.next - 1 |-> Item(i)']
    BY <1>2
  <2>2. op = "mget" => is_type(items[1], "string")'
    <3> SUFFICES ASSUME op = "mget" PROVE is_type(items[1], "string")'
      OBVIOUS
    <3>1. is_type(items[1], "string")
      BY DEF BeginsWell
    <3> QED  BY <1>1, <3>1 DEF is_type, htable_type
  <2>3. op = "mget" => is_type(cmd.items[1], "string")'
    BY <1>2, <2>2 DEF is_type, htable_type
  <2> QED  BY <1>1, <1>2, <2>1, <2>3 DEF Fills
<1>9. Replied' /\ Rest'
  BY <1>1 DEF Replied, NoReply, Reply, Rest
<1> QED  BY <1>1, <1>5, <1>6, <1>7, <1>8, <1>9 DEF IInv, Kept

-----------------------------------------------------------------------------
(* The commands, by what they work on. *)
LEMMA StringCommandKeeps == IInv /\ StringCommand => IInv' /\ Kept
<1>1. {"type", "get", "strlen", "set"} \subseteq CommandNames
  BY DEF CommandNames, Commands
<1>5. ASSUME IInv, exec_set_nothing PROVE IInv' /\ Kept
  BY <1>1, <1>5, SayKeeps DEF exec_set_nothing
<1> SUFFICES ASSUME IInv, NEW k \in Keys,
                    \/ exec_type(k) \/ exec_get(k) \/ exec_strlen(k)
                    \/ \E v \in Given : exec_set(k, v)
             PROVE  IInv' /\ Kept
  BY <1>5 DEF StringCommand
<1>2. CASE exec_type(k)
  BY <1>1, <1>2, SayKeeps DEF exec_type
<1>3. CASE exec_get(k) \/ exec_strlen(k)
  BY <1>1, <1>3, QueryKeeps DEF exec_get, exec_strlen
<1>4. CASE \E v \in Given : exec_set(k, v)
  BY <1>4, InterpreterAssumption, SetKeeps
<1> QED  BY <1>2, <1>3, <1>4

LEMMA HashCommandKeeps == IInv /\ HashCommand => IInv' /\ Kept
<1> SUFFICES ASSUME IInv, NEW k \in Keys,
                    \/ exec_hlen(k) \/ \E op \in {"hgetall", "hkeys", "hvals"} : exec_hgetall(op, k)
                    \/ \E f \in Names : exec_hget(k, f) \/ exec_hexists(k, f)
                    \/ \E fields \in ItemsOf(Names) :
                        exec_hmget(k, fields) \/ \E op \in {"hset", "hdel"} : exec_hash(op, k, fields)
             PROVE  IInv' /\ Kept
  BY DEF HashCommand
<1>1. {"hlen", "hgetall", "hkeys", "hvals", "hget", "hexists", "hmget", "hset", "hdel"}
        \subseteq CommandNames
  BY DEF CommandNames, Commands
<1>2. CASE exec_hlen(k) \/ \E op \in {"hgetall", "hkeys", "hvals"} : exec_hgetall(op, k)
  BY <1>1, <1>2, QueryKeeps DEF exec_hlen, exec_hgetall
<1>3. ASSUME NEW f \in Names, exec_hget(k, f) \/ exec_hexists(k, f) PROVE IInv' /\ Kept
  BY <1>1, <1>3, QueryKeeps DEF exec_hget, exec_hexists
<1>4. ASSUME NEW fields \in ItemsOf(Names), exec_hmget(k, fields) PROVE IInv' /\ Kept
  <2>1. CASE Begin("hmget", k, fields) /\ is_type(k, "hash")
    BY <2>1, BeginKeeps DEF BeginsWell, TypeOfLoop
  <2>2. CASE WrongType("hmget", k, "hash") \/ NoArray("hmget", k)
    <3>1. pc # "loop"
      BY <1>4 DEF exec_hmget, Typed
    <3> QED  BY <1>1, <2>2, <3>1, SayKeeps DEF WrongType, NoArray
  <2> QED  BY <1>4, <2>1, <2>2 DEF exec_hmget, Typed
<1>5. ASSUME NEW fields \in ItemsOf(Names), NEW op \in {"hset", "hdel"}, exec_hash(op, k, fields)
      PROVE  IInv' /\ Kept
  <2>1. CASE Begin(op, k, fields) /\ is_type(k, "hash")
    BY <2>1, BeginKeeps DEF BeginsWell, TypeOfLoop
  <2>2. CASE WrongType(op, k, "hash")
    <3>1. pc # "loop"
      BY <1>5 DEF exec_hash, Typed
    <3> QED  BY <1>1, <2>2, <3>1, SayKeeps DEF WrongType
  <2> QED  BY <1>5, <2>1, <2>2 DEF exec_hash, Typed
<1> QED  BY <1>2, <1>3, <1>4, <1>5

LEMMA ListCommandKeeps == IInv /\ ListCommand => IInv' /\ Kept
<1> SUFFICES ASSUME IInv, NEW k \in Keys,
                    \/ exec_llen(k) \/ \E dir \in {"left", "right"} : exec_pop(k, dir)
                    \/ \E vs \in ItemsOf(Names), op \in {"lpush", "rpush"} : exec_push(op, k, vs)
                    \/ \E id \in Texts : exec_lindex(k, id) \/ \E end \in Texts : exec_lrange(k, id, end)
                    \/ \E v \in Names :
                        exec_lpos(k, v) \/ \E id \in Texts : exec_lset(k, id, v) \/ exec_lrem(k, id, v)
             PROVE  IInv' /\ Kept
  BY DEF ListCommand
<1>1. {"llen", "lpos", "lpush", "rpush"} \subseteq CommandNames
  BY DEF CommandNames, Commands
<1>2. CASE exec_llen(k) \/ \E v \in Names : exec_lpos(k, v)
  BY <1>1, <1>2, QueryKeeps DEF exec_llen, exec_lpos
<1>3. CASE \E dir : exec_pop(k, dir)
  BY <1>3, PopKeeps
<1>4. ASSUME NEW vs \in ItemsOf(Names), NEW op \in {"lpush", "rpush"}, exec_push(op, k, vs)
      PROVE  IInv' /\ Kept
  <2>1. CASE Begin(op, k, vs) /\ is_type(k, "list")
    BY <2>1, BeginKeeps DEF BeginsWell, TypeOfLoop
  <2>2. CASE WrongType(op, k, "list")
    <3>1. pc # "loop"
      BY <1>4 DEF exec_push, Typed
    <3> QED  BY <1>1, <2>2, <3>1, SayKeeps DEF WrongType
  <2> QED  BY <1>4, <2>1, <2>2 DEF exec_push, Typed
<1>5. CASE \E id : exec_lindex(k, id) \/ \E end : exec_lrange(k, id, end)
  BY <1>5, LindexKeeps, LrangeKeeps
<1>6. ASSUME NEW v \in Names, NEW id, exec_lset(k, id, v) \/ exec_lrem(k, id, v)
      PROVE  IInv' /\ Kept
  BY <1>6, LsetKeeps, LremKeeps
<1> QED  BY <1>2, <1>3, <1>4, <1>5, <1>6

LEMMA SetCommandKeeps == IInv /\ SetCommand => IInv' /\ Kept
<1> SUFFICES ASSUME IInv, NEW k \in Keys,
                    \/ exec_smembers(k) \/ \E m \in Names : exec_sismember(k, m)
                    \/ \E ms \in ItemsOf(Names) :
                        \/ exec_smismember(k, ms)
                        \/ \E op \in {"sadd", "srem"} : exec_set_members(op, k, ms)
             PROVE  IInv' /\ Kept
  BY DEF SetCommand
<1>1. {"smembers", "sismember", "smismember", "sadd", "srem"} \subseteq CommandNames
  BY DEF CommandNames, Commands
<1>2. CASE exec_smembers(k) \/ \E m \in Names : exec_sismember(k, m)
  BY <1>1, <1>2, QueryKeeps DEF exec_smembers, exec_sismember
<1>3. ASSUME NEW ms \in ItemsOf(Names), exec_smismember(k, ms) PROVE IInv' /\ Kept
  <2>1. CASE Begin("smismember", k, ms) /\ is_type(k, "set")
    BY <2>1, BeginKeeps DEF BeginsWell, TypeOfLoop
  <2>2. CASE WrongType("smismember", k, "set") \/ NoArray("smismember", k)
    <3>1. pc # "loop"
      BY <1>3 DEF exec_smismember, Typed
    <3> QED  BY <1>1, <2>2, <3>1, SayKeeps DEF WrongType, NoArray
  <2> QED  BY <1>3, <2>1, <2>2 DEF exec_smismember, Typed
<1>4. ASSUME NEW ms \in ItemsOf(Names), NEW op \in {"sadd", "srem"}, exec_set_members(op, k, ms)
      PROVE  IInv' /\ Kept
  <2>1. CASE Begin(op, k, ms) /\ is_type(k, "set")
    BY <2>1, BeginKeeps DEF BeginsWell, TypeOfLoop
  <2>2. CASE WrongType(op, k, "set")
    <3>1. pc # "loop"
      BY <1>4 DEF exec_set_members, Typed
    <3> QED  BY <1>1, <2>2, <3>1, SayKeeps DEF WrongType
  <2> QED  BY <1>4, <2>1, <2>2 DEF exec_set_members, Typed
<1> QED  BY <1>2, <1>3, <1>4

LEMMA KeysCommandKeeps == IInv /\ KeysCommand => IInv' /\ Kept
<1> SUFFICES ASSUME IInv, NEW keys \in ItemsOf(Keys),
                    exec_mget(keys) \/ \E op \in {"del", "exists", "mset"} : exec_keys(op, keys)
             PROVE  IInv' /\ Kept
  BY DEF KeysCommand
<1>1. CASE Begin("mget", NULL, keys) /\ is_type(keys[1], "string")
  BY <1>1, BeginKeeps DEF BeginsWell
<1>2. CASE WrongType("mget", keys[1], "string") /\ pc = "idle"
  <2>1. keys[1] \in Keys
    BY ItemsAre
  <2>2. "mget" \in CommandNames
    BY DEF CommandNames, Commands
  <2> QED  BY <1>2, <2>1, <2>2, SayKeeps DEF WrongType
<1>3. ASSUME NEW op \in {"del", "exists", "mset"}, Begin(op, NULL, keys) PROVE IInv' /\ Kept
  BY <1>3, BeginKeeps DEF BeginsWell
<1> QED  BY <1>1, <1>2, <1>3 DEF exec_mget, exec_keys, Typed

-----------------------------------------------------------------------------
(* An iteration: what it leaves alone, and the item it is for. *)
LEMMA IterationIs ==
    ASSUME IInv, Iterate
    PROVE  /\ pc = "loop" /\ pc' = "loop" /\ before' = before /\ Counted(before')
           /\ Rest' /\ Replied'
           /\ cmd'.op = cmd.op /\ cmd'.key = cmd.key /\ cmd'.items = cmd.items
           /\ cmd'.next = cmd.next + 1 /\ cmd.next \in Nat /\ 1 <= cmd.next
           /\ cmd'.next \in 1 .. Len(cmd'.items) + 1
           /\ cmd \in KeysLoop => cmd' \in KeysLoop /\ cmd.items[cmd.next] \in Keys
           /\ cmd \in NamesLoop => cmd' \in NamesLoop /\ cmd.items[cmd.next] \in Names
           /\ cmd.op \notin Arrays => res' = <<>>
<1>1. /\ pc = "loop" /\ pc' = "loop" /\ before' = before /\ reply' = reply
      /\ cmd' = [cmd EXCEPT !.next = @ + 1] /\ cmd.next \in DOMAIN cmd.items
  BY DEF Iterate
<1>2. cmd \in KeysLoop \cup NamesLoop
  BY <1>1 DEF IInv, Loop
<1>3. /\ cmd'.op = cmd.op /\ cmd'.key = cmd.key /\ cmd'.items = cmd.items
      /\ cmd'.next = cmd.next + 1 /\ cmd.next \in Nat
      /\ cmd \in KeysLoop => cmd' \in KeysLoop
      /\ cmd \in NamesLoop => cmd' \in NamesLoop
  BY <1>1, <1>2 DEF KeysLoop, NamesLoop
<1>4. PICK S : S \in {Keys, Names} /\ cmd.items \in ItemsOf(S)
               /\ (cmd \in KeysLoop => S = Keys)
               /\ (cmd \notin KeysLoop => S = Names)
  BY <1>2 DEF KeysLoop, NamesLoop
<1>5. /\ Len(cmd.items) \in Nat /\ DOMAIN cmd.items = 1 .. Len(cmd.items)
      /\ \A i \in 1 .. Len(cmd.items) : cmd.items[i] \in S
  BY <1>4, ItemsAre
<1>6. cmd.next \in 1 .. Len(cmd.items)
  BY <1>1, <1>5
<1>7. 1 <= cmd.next /\ cmd'.next \in 1 .. Len(cmd'.items) + 1
  <2>1. PICK m : m = Len(cmd.items)
    OBVIOUS
  <2> QED  BY <1>3, <1>5, <1>6, <2>1
<1>8. cmd.items[cmd.next] \in S
  BY <1>5, <1>6
<1>9. cmd \in NamesLoop => cmd \notin KeysLoop
  BY DEF KeysLoop, NamesLoop
<1>10. Rest' /\ Replied' /\ Counted(before')
  BY <1>1 DEF IInv, Rest, Replied
<1>11. cmd.op \notin Arrays => res' = <<>>
  <2>1. cmd.op \notin Arrays => res' = res
    BY DEF Iterate, Collect
  <2> QED  BY <1>1, <2>1 DEF IInv, Fills
<1> QED  BY <1>1, <1>3, <1>4, <1>7, <1>8, <1>9, <1>10, <1>11

(* A loop that fills an array changes nothing, and appends what it finds. *)
LEMMA ArrayIterates ==
    ASSUME IInv, Iterate, cmd.op \in Arrays
    PROVE  store' = store /\ oks' = oks /\ Fills'
<1>1. PICK v : LET o == Effect(cmd.op, cmd.key, cmd.items[cmd.next], v)
               IN  store' = o.store /\ Collect(o)
  BY DEF Iterate
<1>2. PICK o : o = Effect(cmd.op, cmd.key, cmd.items[cmd.next], v)
  OBVIOUS
<1>3. o = Effect(cmd.op, cmd.key, cmd.items[cmd.next], NULL) /\ o.store = store
  BY <1>2 DEF Effect, Arrays, Unchanged, Outcome
<1>4. store' = store /\ oks' = oks /\ res' = Append(res, o.res)
  BY <1>1, <1>2, <1>3 DEF Collect, Arrays
<1>5. /\ cmd'.op = cmd.op /\ cmd'.key = cmd.key /\ cmd'.items = cmd.items
      /\ cmd'.next = cmd.next + 1 /\ cmd.next \in Nat /\ 1 <= cmd.next
  BY IterationIs
<1>6. /\ res = [i \in 1 .. cmd.next - 1 |-> Item(i)]
      /\ cmd.op = "mget" => is_type(cmd.items[1], "string")
  BY IterationIs DEF IInv, Fills
<1>7. ASSUME NEW i PROVE Item(i)' = Item(i)
  BY <1>4, <1>5 DEF Item, Effect, Arrays, Unchanged, Outcome, htable_get, htable_hget,
     htable_sismember, SetOf, htable_exists
<1>8. o.res = Item(cmd.next)
  BY <1>3 DEF Item
<1>9. res' = [i \in 1 .. cmd'.next - 1 |-> Item(i)']
  <2>1. PICK n : n = cmd.next
    OBVIOUS
  <2>2. n \in Nat /\ 1 <= n /\ cmd'.next - 1 = n
    BY <1>5, <2>1
  <2>3. \A i : Item(i)' = Item(i)
    BY <1>7
  <2> HIDE DEF Item
  <2>4. res = [i \in 1 .. n - 1 |-> Item(i)] /\ res' = Append(res, Item(n))
    BY <1>4, <1>6, <1>8, <2>1
  <2>5. res \in Seq({Item(i) : i \in 1 .. n - 1}) /\ Len(res) = n - 1
    BY <2>2, <2>4
  <2>6. Append(res, Item(n)) = [i \in 1 .. n |-> Item(i)]
    BY <2>2, <2>4, <2>5
  <2> QED  BY <2>2, <2>3, <2>4, <2>6
<1>10. (cmd.op = "mget" => is_type(cmd.items[1], "string"))'
  BY <1>4, <1>5, <1>6 DEF is_type, htable_type
<1> QED  BY <1>4, <1>5, <1>9, <1>10 DEF Fills

(* An iteration over keys: DEL and MSET change the key of the iteration, and *)
(* MSET its type.                                                            *)
LEMMA DelIterates ==
    ASSUME IInv, Iterate, cmd \in KeysLoop, cmd.op = "del"
    PROVE  Counted(store') /\ Kept /\ Sums'
<1>1. PICK x : x = cmd.items[cmd.next] /\ x \in Keys
  BY IterationIs
<1>2. store' = htable_del(x).store /\ oks' = oks + htable_del(x).res
  BY <1>1 DEF Iterate, Collect, Effect, Arrays
<1>3. /\ pc = "loop" /\ before' = before /\ cmd'.op = "del" /\ Counted(store)
  BY IterationIs DEF IInv
<1>4. /\ oks \in Nat /\ IsFiniteSet(Lost) /\ oks = Cardinality(Lost)
      /\ \A y \in Keys : store[y] # NULL => before[y] # NULL
  BY <1>3 DEF IInv, Sums
<1>5. CASE store[x] = NULL
  <2>1. htable_del(x).store = store /\ htable_del(x).res = 0
    BY <1>1, <1>5, DelChanges
  <2>2. store' = store /\ oks' = oks
    BY <1>2, <1>4, <2>1
  <2> QED  BY <1>3, <1>4, <2>2 DEF Sums, Lost, Kept
<1>6. CASE store[x] # NULL
  <2>1. store' = [store EXCEPT ![x] = NULL] /\ oks' = oks + 1
    BY <1>1, <1>2, <1>6, DelChanges
  <2>2. Counted(store') /\ Kept
    BY <1>1, <1>3, <2>1 DEF Counted, Kept
  <2>3. Lost' = Lost \cup {x} /\ x \notin Lost
    BY <1>1, <1>3, <1>4, <1>6, <2>1 DEF Lost, Counted
  <2>4. IsFiniteSet(Lost') /\ Cardinality(Lost') = oks' /\ oks' \in Nat
    <3>1. IsFiniteSet(Lost \cup {x}) /\ Cardinality(Lost \cup {x}) = Cardinality(Lost) + 1
      BY <1>4, <2>3, FS_AddElement
    <3> QED  BY <1>4, <2>1, <2>3, <3>1
  <2>5. \A y \in Keys : store'[y] # NULL => before'[y] # NULL
    BY <1>3, <1>4, <2>1 DEF Counted
  <2> QED  BY <1>3, <2>2, <2>4, <2>5 DEF Sums
<1> QED  BY <1>5, <1>6

LEMMA ExistsIterates ==
    ASSUME IInv, Iterate, cmd \in KeysLoop, cmd.op = "exists"
    PROVE  store' = store /\ Sums'
<1>1. PICK x : x = cmd.items[cmd.next] /\ x \in Keys
  BY IterationIs
<1>2. PICK n : n = cmd.next
  OBVIOUS
<1>3. /\ pc = "loop" /\ before' = before /\ cmd'.op = "exists" /\ cmd'.items = cmd.items
      /\ cmd'.next = n + 1 /\ n \in Nat /\ 1 <= n
  BY <1>2, IterationIs
<1>4. /\ oks \in Nat /\ store = before /\ oks = Cardinality(Found(n - 1))
  BY <1>2, <1>3 DEF IInv, Sums
<1>5. store' = store /\ oks' = oks + Bit(before[x] # NULL)
  BY <1>1, <1>4 DEF Iterate, Collect, Effect, Arrays, Unchanged, Outcome, htable_exists
<1>6. Found(n) = IF before[x] # NULL THEN Found(n - 1) \cup {n} ELSE Found(n - 1)
  BY <1>1, <1>2, <1>3 DEF Found
<1>7. IsFiniteSet(Found(n - 1)) /\ n \notin Found(n - 1)
  <2>1. IsFiniteSet(1 .. n - 1) /\ Found(n - 1) \subseteq 1 .. n - 1
    BY <1>3, FS_Interval DEF Found
  <2> QED  BY <1>3, <2>1, FS_Subset
<1>8. oks' = Cardinality(Found(n)) /\ oks' \in Nat
  <2>1. Cardinality(Found(n - 1) \cup {n}) = Cardinality(Found(n - 1)) + 1
    BY <1>7, FS_AddElement
  <2> QED  BY <1>4, <1>5, <1>6, <2>1 DEF Bit
<1>9. Cardinality(Found(cmd.next - 1))' = Cardinality(Found(n))
  BY <1>3 DEF Found
<1> QED  BY <1>3, <1>4, <1>5, <1>8, <1>9 DEF Sums

LEMMA MsetIterates ==
    ASSUME IInv, Iterate, cmd \in KeysLoop, cmd.op = "mset"
    PROVE  Counted(store') /\ Kept /\ Sums'
<1>1. PICK x : x = cmd.items[cmd.next] /\ x \in Keys
  BY IterationIs
<1>2. PICK v \in Texts : store' = htable_set(x, v).store /\ oks' = oks + htable_set(x, v).res
  BY <1>1, InterpreterAssumption DEF Iterate, Collect, Effect, Arrays
<1>3. /\ pc = "loop" /\ cmd'.op = "mset" /\ Counted(store)
  BY IterationIs DEF IInv
<1>4. oks' \in Nat
  <2>1. oks \in Nat /\ htable_set(x, v).res \in {0, 1}
    BY <1>3 DEF IInv, Sums, htable_set, Stored, Outcome, Bit
  <2>2. PICK r : r = htable_set(x, v).res
    OBVIOUS
  <2> QED  BY <1>2, <2>1, <2>2
<1>5. PICK e : e = String(v)
  OBVIOUS
<1>6. Good(e) /\ e \in Entry
  BY <1>5, StringIsGood DEF Good
<1>7. store' = [store EXCEPT ![x] = e]
  BY <1>2, <1>5 DEF htable_set, Stored, Outcome
<1>8. store' \in [Keys -> Entry \cup {NULL}]
  BY <1>3, <1>6, <1>7 DEF Counted
<1>9. Counted(store')
  BY <1>1, <1>3, <1>6, <1>7, <1>8 DEF Counted
<1> QED  BY <1>3, <1>4, <1>9 DEF Sums, Kept

LEMMA KeysIterationKeeps ==
    ASSUME IInv, cmd \in KeysLoop, Iterate
    PROVE  IInv' /\ Kept
<1>1. /\ pc = "loop" /\ pc' = "loop" /\ before' = before /\ Counted(before')
      /\ Rest' /\ Replied' /\ cmd'.op = cmd.op /\ cmd' \in KeysLoop
      /\ cmd'.next \in 1 .. Len(cmd'.items) + 1 /\ (cmd.op \notin Arrays => res' = <<>>)
  BY IterationIs
<1>2. Loop' /\ cmd.op \in {"del", "exists", "mset", "mget"}
  BY <1>1 DEF Loop, KeysLoop
<1>3. Counted(store') /\ Kept /\ Sums' /\ Fills'
  <2>1. CASE cmd.op = "mget"
    <3>1. store' = store /\ oks' = oks /\ Fills'
      BY <2>1, ArrayIterates DEF Arrays
    <3>2. Sums'
      BY <1>1, <2>1, <3>1 DEF IInv, Sums
    <3> QED  BY <3>1, <3>2 DEF IInv, Kept
  <2>2. CASE cmd.op = "exists"
    <3>1. Fills'
      BY <1>1, <2>2 DEF Fills, Arrays
    <3> QED  BY <2>2, <3>1, ExistsIterates DEF IInv, Kept
  <2>3. CASE cmd.op = "del"
    <3>1. Fills'
      BY <1>1, <2>3 DEF Fills, Arrays
    <3> QED  BY <2>3, <3>1, DelIterates
  <2>4. CASE cmd.op = "mset"
    <3>1. Fills'
      BY <1>1, <2>4 DEF Fills, Arrays
    <3> QED  BY <2>4, <3>1, MsetIterates
  <2> QED  BY <1>2, <2>1, <2>2, <2>3, <2>4
<1> QED  BY <1>1, <1>2, <1>3 DEF IInv

(* An iteration over fields, elements or members. *)
LEMMA NamesIterationKeeps ==
    ASSUME IInv, cmd \in NamesLoop, is_type(cmd.key, TypeOfLoop(cmd.op)), Iterate
    PROVE  IInv' /\ Kept
<1>1. PICK k, op, type :
        /\ k = cmd.key /\ op = cmd.op /\ type = TypeOfLoop(op) /\ type \in Types
        /\ k \in Keys /\ cmd'.op = op /\ cmd'.key = k
        /\ op \in {"hset", "hdel", "hmget", "lpush", "rpush", "sadd", "srem", "smismember"}
  <2>1. PICK k, op, type : k = cmd.key /\ op = cmd.op /\ type = TypeOfLoop(op)
    OBVIOUS
  <2>2. type \in Types
    BY <2>1 DEF TypeOfLoop, Types
  <2>3. k \in Keys /\ cmd'.op = op /\ cmd'.key = k
    BY <2>1, IterationIs DEF NamesLoop
  <2> QED  BY <2>1, <2>2, <2>3 DEF NamesLoop
<1>2. /\ pc = "loop" /\ pc' = "loop" /\ before' = before /\ Counted(before')
      /\ Rest' /\ Replied' /\ cmd' \in NamesLoop /\ cmd.next \in Nat /\ 1 <= cmd.next
      /\ cmd'.next = cmd.next + 1 /\ (op \notin Arrays => res' = <<>>)
      /\ cmd'.next \in 1 .. Len(cmd'.items) + 1
  BY <1>1, IterationIs
<1>3. PICK x \in Names : x = cmd.items[cmd.next]
  BY IterationIs
<1>4. PICK v : /\ op = "hset" => v \in Texts
               /\ LET o == Effect(op, k, x, v) IN store' = o.store /\ Collect(o)
  BY <1>1, <1>3, InterpreterAssumption DEF Iterate
<1>5. PICK o : o = Effect(op, k, x, v) /\ store' = o.store /\ Collect(o)
  BY <1>4
<1>6. Counted(store) /\ is_type(k, type) /\ Sums
  BY <1>1, <1>2 DEF IInv
<1>7. oks' = IF op \in {"lpush", "rpush"} THEN o.res
             ELSE IF op \in Arrays THEN oks ELSE oks + o.res
  BY <1>1, <1>5 DEF Collect
<1>8. /\ Change(k, type, store') /\ oks' \in Nat
      /\ op \in {"hset", "sadd"} => Size(store, k)' = Size(store, k) + o.res /\ o.res \in Nat
      /\ op \in {"hdel", "srem"} => Size(store, k)' = Size(store, k) - o.res /\ o.res \in Nat
      /\ op \in {"lpush", "rpush"} => oks' = Size(store, k)'
  <2>1. PICK s : s = o.store
    OBVIOUS
  <2>2. Size(store, k)' = Size(s, k)
    BY <1>5, <2>1 DEF Size
  <2>3. oks \in Nat
    BY <1>6 DEF Sums
  <2>4. CASE op \in {"hset", "hdel", "sadd", "srem"}
    <3>1. /\ Change(k, type, s) /\ o.res \in Nat
          /\ op \in {"hset", "sadd"} => Size(s, k) = Size(store, k) + o.res
          /\ op \in {"hdel", "srem"} => Size(s, k) = Size(store, k) - o.res
      <4>1. CASE op = "hset"
        <5>1. o = htable_hset(k, x, v) /\ type = "hash"
          BY <1>1, <1>5, <4>1 DEF Effect, TypeOfLoop
        <5> QED  BY <1>1, <1>4, <1>6, <2>1, <4>1, <5>1, HsetChanges
      <4>2. CASE op = "hdel"
        <5>1. o = htable_hdel(k, x) /\ type = "hash"
          BY <1>1, <1>5, <4>2 DEF Effect, TypeOfLoop
        <5> QED  BY <1>1, <1>6, <2>1, <4>2, <5>1, HdelChanges
      <4>3. CASE op = "sadd"
        <5>1. o = htable_sadd(k, x) /\ type = "set"
          BY <1>1, <1>5, <4>3 DEF Effect, TypeOfLoop
        <5> QED  BY <1>1, <1>6, <2>1, <4>3, <5>1, SaddChanges
      <4>4. CASE op = "srem"
        <5>1. o = htable_srem(k, x) /\ type = "set"
          BY <1>1, <1>5, <4>4 DEF Effect, TypeOfLoop
        <5> QED  BY <1>1, <1>6, <2>1, <4>4, <5>1, SremChanges
      <4> QED  BY <2>4, <4>1, <4>2, <4>3, <4>4
    <3>2. oks' = oks + o.res /\ oks + o.res \in Nat
      <4>1. oks' = oks + o.res
        BY <1>7, <2>4 DEF Arrays
      <4> QED  BY <2>3, <3>1, <4>1
    <3> QED  BY <1>5, <2>1, <2>2, <2>4, <3>1, <3>2
  <2>5. CASE op \in {"lpush", "rpush"}
    <3>1. PICK dir : o = htable_push(k, x, dir)
      BY <1>5, <2>5 DEF Effect
    <3>2. type = "list" /\ oks' = o.res
      BY <1>1, <1>7, <2>5 DEF TypeOfLoop
    <3>3. Change(k, type, s) /\ o.res \in Nat /\ o.res = Size(s, k)
      BY <1>1, <1>6, <2>1, <3>1, <3>2, PushChanges
    <3> QED  BY <1>5, <2>1, <2>2, <2>5, <3>2, <3>3
  <2>6. CASE op \in Arrays
    <3>1. store' = store /\ oks' = oks
      BY <1>1, <2>6, ArrayIterates
    <3> QED  BY <2>3, <2>6, <3>1 DEF Change, Arrays
  <2> QED  BY <1>1, <2>4, <2>5, <2>6 DEF Arrays
<1>9. Counted(store') /\ is_type(k, type)' /\ Kept
  BY <1>1, <1>6, <1>8, ChangeKeeps
<1>10. Loop'
  <2>1. is_type(cmd.key, TypeOfLoop(cmd.op))'
    BY <1>1, <1>9 DEF is_type, htable_type
  <2> QED  BY <1>2, <2>1 DEF Loop
<1>11. Fills'
  <2>1. CASE op \in Arrays
    BY <1>1, <2>1, ArrayIterates
  <2>2. CASE op \notin Arrays
    BY <1>1, <1>2, <2>2 DEF Fills
  <2> QED  BY <2>1, <2>2
<1>12. Sums'
  <2>1. PICK a, b, c : a = Size(before, k) /\ b = Size(store, k) /\ c = Size(store, k)'
    OBVIOUS
  <2>2. Size(before, k)' = a
    BY <1>2, <2>1 DEF Size
  <2>3. op \in {"hset", "sadd", "hdel", "srem"} =>
            a \in Nat /\ b \in Int /\ o.res \in Nat /\ oks \in Nat /\ oks' = oks + o.res
    <3> SUFFICES ASSUME op \in {"hset", "sadd", "hdel", "srem"}
                 PROVE  a \in Nat /\ b \in Int /\ o.res \in Nat /\ oks \in Nat
                        /\ oks' = oks + o.res
      OBVIOUS
    <3>1. a \in Nat /\ oks \in Nat
      BY <1>1, <1>6, <2>1 DEF Sums
    <3>2. b \in Int
      <4>1. store[k] # NULL => store[k].type = type
        BY <1>1, <1>6, TypeIs DEF htable_exists
      <4>2. type # "string"
        BY <1>1 DEF TypeOfLoop
      <4>3. b \in Nat
        BY <1>1, <1>6, <2>1, <4>1, <4>2, SizeIs
      <4> QED  BY <4>3
    <3> QED  BY <1>7, <1>8, <3>1, <3>2 DEF Arrays
  <2>4. op \in {"hset", "sadd"} => oks' = c - a
    <3>1. op \in {"hset", "sadd"} => oks = b - a /\ c = b + o.res
      BY <1>1, <1>6, <1>8, <2>1 DEF Sums
    <3> QED  BY <2>3, <3>1
  <2>5. op \in {"hdel", "srem"} => oks' = a - c
    <3>1. op \in {"hdel", "srem"} => oks = a - b /\ c = b - o.res
      BY <1>1, <1>6, <1>8, <2>1 DEF Sums
    <3> QED  BY <2>3, <3>1
  <2>6. op \in {"lpush", "rpush"} => oks' = c
    BY <1>8, <2>1
  <2>7. op \notin {"del", "exists"}
    BY <1>1
  <2> QED  BY <1>1, <1>8, <2>1, <2>2, <2>3, <2>4, <2>5, <2>6, <2>7 DEF Sums
<1> QED  BY <1>2, <1>9, <1>10, <1>11, <1>12 DEF IInv

(* The loop is over: every item had its iteration. *)
LEMMA FinishIs ==
    ASSUME IInv, Finish
    PROVE  /\ pc = "loop" /\ store' = store /\ before' = store
           /\ cmd.op \in CommandNames /\ cmd.key \in Keys \cup {NULL}
           /\ Len(cmd.items) \in Nat /\ 1 <= Len(cmd.items)
           /\ DOMAIN cmd.items = 1 .. Len(cmd.items) /\ cmd.next = Len(cmd.items) + 1
<1>1. /\ pc = "loop" /\ store' = store /\ before' = store
      /\ cmd.next \notin DOMAIN cmd.items
  BY DEF Finish
<1>2. /\ cmd \in KeysLoop \cup NamesLoop
      /\ cmd.next \in 1 .. Len(cmd.items) + 1
  BY <1>1 DEF IInv, Loop
<1>3. cmd.op \in CommandNames /\ cmd.key \in Keys \cup {NULL}
  BY <1>2 DEF KeysLoop, NamesLoop, CommandNames, Commands
<1>4. cmd.items \in ItemsOf(Keys) \/ cmd.items \in ItemsOf(Names)
  BY <1>2 DEF KeysLoop, NamesLoop
<1>5. /\ Len(cmd.items) \in Nat /\ 1 <= Len(cmd.items)
      /\ DOMAIN cmd.items = 1 .. Len(cmd.items)
  BY <1>4, ItemsAre
<1>6. cmd.next = Len(cmd.items) + 1
  <2>1. PICK m : m = Len(cmd.items)
    OBVIOUS
  <2> QED  BY <1>1, <1>2, <1>5, <2>1
<1> QED  BY <1>1, <1>3, <1>5, <1>6

LEMMA FinishKeeps ==
    ASSUME IInv, Finish
    PROVE  IInv' /\ Kept
<1>1. /\ store' = store /\ before' = store' /\ Counted(store')
      /\ cmd.op \in CommandNames /\ cmd.key \in Keys \cup {NULL}
  BY FinishIs DEF IInv
<1>2. \E tag, val : Answer(cmd.op, cmd.key, tag, val)
  BY DEF Finish
<1>3. PICK op, k : op = cmd.op /\ k = cmd.key
  OBVIOUS
<1>4. PICK tag, val : Answer(op, k, tag, val)
  BY <1>2, <1>3
<1> QED  BY <1>1, <1>3, <1>4, AnswerKeeps DEF Kept

-----------------------------------------------------------------------------
(* Every step. *)
LEMMA NextKeepsIInv == IInv /\ [Next]_vars => IInv' /\ Kept
<1> SUFFICES ASSUME IInv, [Next]_vars PROVE IInv' /\ Kept
  OBVIOUS
<1>1. CASE exec_argc \/ (\E op \in Constant : exec_constant(op))
  BY <1>1, SayKeeps DEF exec_argc, exec_constant, CommandNames
<1>2. CASE Increment
  BY <1>2, IncrbyKeeps DEF Increment
<1>3. CASE StringCommand \/ HashCommand \/ ListCommand \/ SetCommand \/ KeysCommand
  BY <1>3, StringCommandKeeps, HashCommandKeeps, ListCommandKeeps, SetCommandKeeps,
     KeysCommandKeeps
<1>4. CASE Iterate
  BY <1>4, KeysIterationKeeps, NamesIterationKeeps DEF IInv, Loop, Iterate
<1>5. CASE Finish
  BY <1>5, FinishKeeps
<1>6. CASE UNCHANGED vars
  <2>1. /\ store' = store /\ cmd' = cmd /\ oks' = oks /\ res' = res /\ before' = before
        /\ reply' = reply /\ pc' = pc
    BY <1>6 DEF vars
  <2>2. Loop' /\ Rest' /\ Replied' /\ Kept
    BY <2>1 DEF IInv, Loop, Rest, Replied, Kept, is_type, htable_type
  <2>3. pc' = "loop" => Sums'
    <3>1. Lost' = Lost /\ Found(cmd.next - 1)' = Found(cmd.next - 1)
      BY <2>1 DEF Lost, Found
    <3>2. /\ Size(store, cmd.key)' = Size(store, cmd.key)
          /\ Size(before, cmd.key)' = Size(before, cmd.key)
      BY <2>1 DEF Size
    <3>3. Sums => Sums'
      BY <2>1, <3>1, <3>2 DEF Sums
    <3> QED  BY <2>1, <3>3 DEF IInv
  <2>4. pc' = "loop" => Fills'
    <3>1. ASSUME NEW i PROVE Item(i)' = Item(i)
      BY <2>1 DEF Item, Effect, htable_del, htable_set, htable_hset, htable_hdel, htable_push,
         htable_sadd, htable_srem, Deleted, Stored, Unchanged, Outcome, htable_get, htable_hget,
         htable_sismember, SetOf, HashOf, ElementsOf, htable_exists
    <3>2. is_type(cmd.items[1], "string")' = is_type(cmd.items[1], "string")
      BY <2>1 DEF is_type, htable_type
    <3> QED  BY <2>1, <3>1, <3>2 DEF IInv, Fills
  <2> QED  BY <2>1, <2>2, <2>3, <2>4 DEF IInv
<1> QED  BY <1>1, <1>2, <1>3, <1>4, <1>5, <1>6 DEF Next

(* The invariant holds in every reachable state. *)
THEOREM Invariance == Spec => []IInv
BY InitIsGood, NextKeepsIInv, PTL DEF Spec

(* Keys keep entries of the four shapes, and the command in progress, what   *)
(* it has added up and the array it fills keep theirs.                       *)
THEOREM TypeCorrectness == Spec => []TypeOK
<1>1. ASSUME IInv PROVE TypeOK
  <2>1. /\ \A k \in Keys : store[k] # NULL => store[k] \in Entry
        /\ DOMAIN store = Keys /\ DOMAIN before = Keys
    BY <1>1 DEF IInv, Counted, Good
  <2>2. CASE pc # "loop"
    <3>1. /\ cmd.op = "none" /\ cmd.key = NULL /\ cmd.items = <<>> /\ cmd.next = 1
          /\ oks = 0 /\ res = <<>>
      BY <1>1, <2>2 DEF IInv, Rest, NoCommand
    <3>2. cmd.next \in 1 .. Len(cmd.items) + 1 /\ Len(res) < cmd.next
          /\ cmd.items \in Seq(Keys \cup Names)
      BY <3>1
    <3> QED  BY <1>1, <2>1, <3>1, <3>2 DEF TypeOK, IInv, Replied
  <2>3. CASE pc = "loop"
    <3>1. /\ cmd \in KeysLoop \cup NamesLoop /\ cmd.next \in 1 .. Len(cmd.items) + 1
          /\ Sums /\ Fills
      BY <1>1, <2>3 DEF IInv, Loop
    <3>2. cmd.op \in Commands /\ cmd.key \in Keys \cup {NULL} /\ cmd.next \in Nat
      BY <3>1 DEF KeysLoop, NamesLoop, Commands
    <3>3. cmd.items \in ItemsOf(Keys) \/ cmd.items \in ItemsOf(Names)
      BY <3>1 DEF KeysLoop, NamesLoop
    <3>4. cmd.items \in Seq(Keys) \/ cmd.items \in Seq(Names)
      BY <3>3, ItemsAre
    <3>5. cmd.items \in Seq(Keys \cup Names) /\ Len(cmd.items) \in Nat
      BY <3>4
    <3>6. 1 <= cmd.next
      <4>1. PICK m \in Nat : m = Len(cmd.items)
        BY <3>5
      <4> QED  BY <3>1, <4>1
    <3>7. Len(res) < cmd.next
      <4>1. PICK n \in Nat : n = cmd.next /\ 1 <= n
        BY <3>2, <3>6
      <4>2. CASE cmd.op \in Arrays
        <5> HIDE DEF Item
        <5>1. res = [i \in 1 .. n - 1 |-> Item(i)]
          BY <3>1, <4>1, <4>2 DEF Fills
        <5>2. Len(res) = n - 1
          BY <4>1, <5>1
        <5> QED  BY <4>1, <5>2
      <4>3. CASE cmd.op \notin Arrays
        <5>1. Len(res) = 0
          BY <3>1, <4>3 DEF Fills
        <5> QED  BY <4>1, <5>1
      <4> QED  BY <4>2, <4>3
    <3> QED  BY <1>1, <2>1, <2>3, <3>1, <3>2, <3>5, <3>7 DEF TypeOK, IInv, Replied, Sums
  <2> QED  BY <2>2, <2>3
<1>2. IInv => TypeOK
  BY <1>1
<1> QED  BY <1>2, Invariance, PTL

(* Only SET and MSET make an entry one of another type.                      *)
THEOREM TypesAreKept == Spec => TypeIsKept
<1>1. IInv /\ [Next]_vars =>
        \A k \in Keys :
            store[k] # NULL /\ store'[k] # NULL /\ store'[k].type # store[k].type =>
                cmd.op = "mset" \/ (pc = "idle" /\ reply'.op = "set")
  BY NextKeepsIInv DEF Kept
<1> QED  BY <1>1, Invariance, PTL DEF Spec, TypeIsKept

-----------------------------------------------------------------------------
(* Only the end of its loop ends a command that has one. *)
LEMMA LoopsEnd == Next /\ pc = "loop" /\ pc' = "idle" => Finish
<1>1. exec_argc \/ (\E op \in Constant : exec_constant(op)) => pc = "idle"
  BY DEF exec_argc, exec_constant
<1>2. StringCommand => pc = "idle"
  BY DEF StringCommand, exec_type, exec_get, exec_strlen, exec_set, exec_set_nothing, Query, Typed
<1>3. Increment => pc = "idle"
  BY DEF Increment, exec_incrby, Typed
<1>4. HashCommand => pc = "idle"
  BY DEF HashCommand, exec_hlen, exec_hgetall, exec_hget, exec_hexists, exec_hmget, exec_hash,
     Query, Typed
<1>5. ListCommand => pc = "idle"
  BY DEF ListCommand, exec_llen, exec_pop, exec_push, exec_lindex, exec_lrange, exec_lpos,
     exec_lset, exec_lrem, Query, Typed
<1>6. SetCommand => pc = "idle"
  BY DEF SetCommand, exec_smembers, exec_sismember, exec_smismember, exec_set_members,
     Query, Typed
<1>7. KeysCommand => pc = "idle"
  BY DEF KeysCommand, exec_mget, exec_keys, Typed, Begin
<1>8. Iterate => pc' = pc
  BY DEF Iterate
<1> QED  BY <1>1, <1>2, <1>3, <1>4, <1>5, <1>6, <1>7, <1>8 DEF Next

(* DEL answers how many keys it deleted, EXISTS how many of the keys named   *)
(* there are, HSET and SADD by how much they made their key larger, HDEL and *)
(* SREM smaller, and a push how long its list is, though the commands count  *)
(* one item at a time and an item may repeat or take the key away.           *)
THEOREM LoopsAnswerTheirEffect == Spec => RepliesCount
<1> DEFINE Answered ==
      pc = "loop" /\ pc' = "idle" /\ reply'.tag = "int" =>
        LET k == cmd.key
            n == CHOOSE x \in reply'.val : TRUE
        IN  CASE cmd.op = "del" ->
                    n = Cardinality({x \in Keys : before[x] # NULL /\ store[x] = NULL})
              [] cmd.op = "exists" ->
                    n = Cardinality({i \in DOMAIN cmd.items : before[cmd.items[i]] # NULL})
              [] cmd.op \in {"hset", "sadd"} -> n = Size(store, k) - Size(before, k)
              [] cmd.op \in {"hdel", "srem"} -> n = Size(before, k) - Size(store, k)
              [] cmd.op \in {"lpush", "rpush"} -> n = Size(store, k)
<1>1. ASSUME IInv, [Next]_vars PROVE Answered
  <2> SUFFICES ASSUME pc = "loop", pc' = "idle", reply'.tag = "int" PROVE Answered
    OBVIOUS
  <2>1. Next
    BY <1>1 DEF vars
  <2>2. Finish
    BY <2>1, LoopsEnd
  <2>3. /\ Len(cmd.items) \in Nat /\ 1 <= Len(cmd.items)
        /\ DOMAIN cmd.items = 1 .. Len(cmd.items) /\ cmd.next = Len(cmd.items) + 1
    BY <1>1, <2>2, FinishIs
  <2>4. reply'.val = {oks} /\ cmd.op \notin Arrays \cup {"mset"}
    BY <2>2 DEF Finish, Answer, Reply
  <2>5. (CHOOSE x \in reply'.val : TRUE) = oks
    BY <2>4
  <2>6. cmd \in KeysLoop \cup NamesLoop /\ Sums
    BY <1>1 DEF IInv, Loop
  <2>7. cmd.op \in {"del", "exists", "hset", "sadd", "hdel", "srem", "lpush", "rpush"}
    BY <2>4, <2>6 DEF KeysLoop, NamesLoop, Arrays
  <2>8. cmd.next - 1 = Len(cmd.items) /\ cmd.next > 1
    BY <2>3
  <2>9. Found(cmd.next - 1) = {i \in DOMAIN cmd.items : before[cmd.items[i]] # NULL}
    BY <2>3, <2>8 DEF Found
  <2>10. CASE cmd.op = "del"
    BY <2>5, <2>6, <2>10 DEF Sums, Lost
  <2>11. CASE cmd.op = "exists"
    BY <2>5, <2>6, <2>9, <2>11 DEF Sums
  <2>12. CASE cmd.op \in {"hset", "sadd"}
    BY <2>5, <2>6, <2>12 DEF Sums
  <2>13. CASE cmd.op \in {"hdel", "srem"}
    BY <2>5, <2>6, <2>13 DEF Sums
  <2>14. CASE cmd.op \in {"lpush", "rpush"}
    BY <2>5, <2>6, <2>8, <2>14 DEF Sums
  <2> QED  BY <2>7, <2>10, <2>11, <2>12, <2>13, <2>14
<1>2. IInv /\ [Next]_vars => Answered
  BY <1>1
<1> QED  BY <1>2, Invariance, PTL DEF Spec, RepliesCount

(* What is found for an item is what the command of one item replies, if it  *)
(* replies a string, and never the bytes of a struct for the first.          *)
LEMMA ItemIs ==
    ASSUME IInv, pc = "loop", cmd.op \in Arrays, NEW i \in DOMAIN cmd.items,
           NEW one, one = SingleReply(cmd.op, cmd.key, cmd.items[i])
    PROVE  /\ \/ one = reply_string(Item(i))
              \/ \E n \in Ints : one = reply_integer(n) /\ Item(i) = intostr(n)
           /\ i = 1 => one # reply_string(GARBAGE)
<1>1. PICK op, k, x : op = cmd.op /\ k = cmd.key /\ x = cmd.items[i]
  OBVIOUS
<1>2. Counted(store)
  BY DEF IInv
<1>3. CASE op = "mget"
  <2>1. cmd \in KeysLoop /\ is_type(cmd.items[1], "string")
    BY <1>1, <1>3 DEF IInv, Loop, Fills, NamesLoop, Arrays
  <2>2. cmd.items \in ItemsOf(Keys)
    BY <2>1 DEF KeysLoop
  <2>3. x \in Keys
    BY <1>1, <2>2, ItemsAre
  <2>4. Item(i) = htable_get(x)
    BY <1>1, <1>3 DEF Item, Effect, Unchanged, Outcome
  <2>5. ~ is_type(x, "string") => htable_get(x) = GARBAGE
    BY DEF is_type, htable_type, htable_get, htable_exists
  <2>6. is_type(x, "string") => htable_get(x) # GARBAGE
    <3>1. CASE htable_exists(x) /\ is_type(x, "string")
      <4>1. Good(store[x]) /\ store[x].type = "string"
        BY <1>2, <2>3, <3>1, TypeIs DEF Types
      <4>2. htable_get(x) \in Texts
        BY <3>1, <4>1, GoodIs DEF htable_get
      <4> QED  BY <4>2, KeyspaceAssumption
    <3>2. CASE ~ htable_exists(x)
      BY <3>2, KeyspaceAssumption DEF htable_get
    <3> QED  BY <3>1, <3>2
  <2>7. one = reply_string(Item(i))
    BY <1>1, <1>3, <2>4, <2>5 DEF SingleReply
  <2>8. i = 1 => Item(i) # GARBAGE
    BY <1>1, <2>1, <2>4, <2>6
  <2> QED  BY <2>7, <2>8 DEF reply_string
<1>4. CASE op = "hmget"
  <2>1. cmd \in NamesLoop /\ is_type(k, "hash")
    BY <1>1, <1>4 DEF IInv, Loop, KeysLoop, TypeOfLoop
  <2>2. k \in Keys /\ cmd.items \in ItemsOf(Names)
    BY <1>1, <2>1 DEF NamesLoop
  <2>3. x \in Names
    BY <1>1, <2>2, ItemsAre
  <2>4. Item(i) = htable_hget(k, x)
    BY <1>1, <1>4 DEF Item, Effect, Unchanged, Outcome
  <2>5. htable_hget(k, x) \in Texts \cup {NULL}
    <3>1. htable_exists(k) => store[k].fields \in Maps
      BY <1>2, <2>1, <2>2, TypeIs, GoodIs DEF Types
    <3> QED  BY <2>3, <3>1 DEF htable_hget, Maps
  <2>6. htable_hget(k, x) # GARBAGE
    BY <2>5, KeyspaceAssumption
  <2>7. one = reply_string(Item(i))
    BY <1>1, <1>4, <2>4 DEF SingleReply
  <2> QED  BY <2>4, <2>6, <2>7 DEF reply_string
<1>5. CASE op = "smismember"
  <2>1. PICK n : n = Bit(htable_sismember(k, x))
    OBVIOUS
  <2>2. n \in Ints
    BY <2>1, IntsAre DEF Bit
  <2>3. Item(i) = intostr(n) /\ one = reply_integer(n)
    BY <1>1, <1>5, <2>1 DEF Item, Effect, Unchanged, Outcome, SingleReply
  <2>4. one # reply_string(GARBAGE)
    BY <2>3 DEF reply_integer, reply_string
  <2> QED  BY <2>2, <2>3, <2>4
<1> QED  BY <1>1, <1>3, <1>4, <1>5 DEF Arrays

(* How an array shows a string that a command of one item would reply, and a *)
(* number.                                                                   *)
LEMMA ShownIs ==
    ASSUME NEW v, NEW item, item = ArrayItem(v)
    PROVE  /\ v \in Texts \ Words => item.tag = "integer" /\ item.val = strtoi(v)
           /\ v \notin Texts \ Words => item = reply_string(v)
           /\ \A n \in Ints : v = intostr(n) => item = reply_integer(n)
<1>1. is_number(v) <=> v \in Texts \ Words
  BY KeyspaceAssumption DEF is_number, Texts
<1>2. ASSUME NEW n \in Ints, v = intostr(n) PROVE item = reply_integer(n)
  BY <1>2, NumeralsAre DEF ArrayItem
<1> QED  BY <1>1, <1>2 DEF ArrayItem, reply_integer

(* MGET, HMGET and SMISMEMBER have for each item what GET, HGET and          *)
(* SISMEMBER reply for it alone, in the order of the items; only that a      *)
(* string that reads as a number comes as that number.                       *)
THEOREM ArraysAnswerEachItem == Spec => ArraysAgree
<1> DEFINE Agreed ==
      pc = "loop" /\ pc' = "idle" /\ cmd.op \in Arrays =>
        /\ DOMAIN reply'.val = DOMAIN cmd.items
        /\ \A i \in DOMAIN cmd.items :
            LET item == reply'.val[i]
                one  == SingleReply(cmd.op, cmd.key, cmd.items[i])
            IN  /\ IF one.tag = "string" /\ one.val \in Texts \ Words
                   THEN item.tag = "integer" /\ item.val = strtoi(one.val)
                   ELSE item = one
                /\ i = 1 => one # reply_string(GARBAGE)
<1>1. ASSUME IInv, [Next]_vars PROVE Agreed
  <2> SUFFICES ASSUME pc = "loop", pc' = "idle", cmd.op \in Arrays PROVE Agreed
    OBVIOUS
  <2>1. Finish
    BY <1>1, LoopsEnd DEF vars
  <2>2. /\ Len(cmd.items) \in Nat /\ DOMAIN cmd.items = 1 .. Len(cmd.items)
        /\ cmd.next - 1 = Len(cmd.items)
    BY <1>1, <2>1, FinishIs
  <2> HIDE DEF Item
  <2>3. res = [i \in DOMAIN cmd.items |-> Item(i)]
    BY <1>1, <2>2 DEF IInv, Fills
  <2>4. reply'.val = [i \in DOMAIN res |-> ArrayItem(res[i])]
    BY <2>1 DEF Finish, Answer, Reply, Arrays, reply_array
  <2>5. DOMAIN reply'.val = DOMAIN cmd.items
        /\ \A i \in DOMAIN cmd.items : reply'.val[i] = ArrayItem(Item(i))
    BY <2>3, <2>4
  <2>6. ASSUME NEW i \in DOMAIN cmd.items,
               NEW one, one = SingleReply(cmd.op, cmd.key, cmd.items[i]),
               NEW item, item = reply'.val[i]
        PROVE  /\ IF one.tag = "string" /\ one.val \in Texts \ Words
                  THEN item.tag = "integer" /\ item.val = strtoi(one.val)
                  ELSE item = one
               /\ i = 1 => one # reply_string(GARBAGE)
    <3>1. PICK v : v = Item(i)
      OBVIOUS
    <3>2. /\ one = reply_string(v) \/ \E n \in Ints : one = reply_integer(n) /\ v = intostr(n)
          /\ i = 1 => one # reply_string(GARBAGE)
      BY <1>1, <2>6, <3>1, ItemIs
    <3>3. item = ArrayItem(v)
      BY <2>5, <2>6, <3>1
    <3>4. CASE one = reply_string(v)
      <4>1. one.tag = "string" /\ one.val = v
        BY <3>4 DEF reply_string
      <4> QED  BY <3>2, <3>3, <3>4, <4>1, ShownIs
    <3>5. ASSUME NEW n \in Ints, one = reply_integer(n), v = intostr(n)
          PROVE  one.tag # "string" /\ item = one
      BY <3>3, <3>5, ShownIs DEF reply_integer
    <3> QED  BY <3>2, <3>4, <3>5
  <2> QED  BY <2>5, <2>6
<1>2. IInv /\ [Next]_vars => Agreed
  BY <1>1
<1> QED  BY <1>2, Invariance, PTL DEF Spec, ArraysAgree
=============================================================================
