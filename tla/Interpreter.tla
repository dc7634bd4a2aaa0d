---------------------------- MODULE Interpreter ----------------------------
(***************************************************************************)
(* The commands of src/interpreter.c on the keyspace.  A command counts    *)
(* its arguments, looks at the type of its key, and answers an error or    *)
(* works; a command of several keys, fields or members then takes one      *)
(* action per iteration of its loop.  Nothing else runs in between: the    *)
(* server has one thread.  How a reply is spelled is the business of       *)
(* Replies; here it is a tag and what it says.                             *)
(***************************************************************************)
EXTENDS Keyspace

CONSTANTS MaxItems,   \* bound: the keys, fields or members a command names
          Given       \* bound: the texts that are stored, by SET, MSET and HSET

ASSUME InterpreterAssumption == MaxItems \in Nat /\ Given \subseteq Texts

VARIABLES cmd,     \* the command in progress: its name, its key, its items, the next of them
          oks,     \* what its loop has added up
          res,     \* the array its loop has filled
          before,  \* the store when it began
          reply,   \* the last reply, until the next command with a loop begins
          pc       \* "idle", "loop" or "crashed"

vars == <<store, cmd, oks, res, before, reply, pc>>

NoCommand == [op |-> "none", key |-> NULL, items |-> <<>>, next |-> 1]
Reply(op, k, tag, val) == [op |-> op, key |-> k, tag |-> tag, val |-> val]
NoReply == Reply("none", NULL, "none", {})

Init ==
    /\ store = [k \in Keys |-> NULL] /\ before = store
    /\ cmd = NoCommand /\ oks = 0 /\ res = <<>>
    /\ reply = NoReply
    /\ pc = "idle"

-----------------------------------------------------------------------------
(* The command ends with its reply. *)
Answer(op, k, tag, val) ==
    /\ reply' = Reply(op, k, tag, val)
    /\ pc' = "idle" /\ cmd' = NoCommand /\ oks' = 0 /\ res' = <<>>

(* A command that only reads. *)
Say(op, k, tag, val) == Answer(op, k, tag, val) /\ UNCHANGED <<store, before>>

(* A command without a loop that writes: what it answers may depend on its   *)
(* outcome.                                                                  *)
Write(op, k, tag, outcome) ==
    /\ store' = outcome.store /\ before' = outcome.store
    /\ Answer(op, k, tag, {outcome.res})

(* A command with a loop, up to the loop. *)
Begin(op, k, items) ==
    /\ pc = "idle" /\ pc' = "loop"
    /\ cmd' = [op |-> op, key |-> k, items |-> items, next |-> 1]
    /\ reply' = NoReply
    /\ UNCHANGED <<store, before, oks, res>>

WrongType(op, k, type) == ~ is_type(k, type) /\ Say(op, k, "wrongtype", {})

(* The type check of a command whose key is k: a missing key has every type. *)
Typed(op, k, type, A) ==
    /\ pc = "idle"
    /\ WrongType(op, k, type) \/ (is_type(k, type) /\ A)

(* The items of an array are replies themselves: ":" and a number, or "$"    *)
(* and a text, which is NULL for the nil.  A text that is_number accepts is  *)
(* answered as a number.                                                     *)
reply_integer(n) == [tag |-> "integer", val |-> n]
reply_string(v) == [tag |-> "string", val |-> v]
ArrayItem(v) == IF is_number(v) THEN reply_integer(strtoi(v)) ELSE reply_string(v)
reply_array(arr) == [i \in DOMAIN arr |-> ArrayItem(arr[i])]

(* The array of no items for a key that is not there. *)
NoArray(op, k) == ~ htable_exists(k) /\ Say(op, k, "array", <<>>)

-----------------------------------------------------------------------------
(* A command with a wrong number of arguments, whichever it is. *)
exec_argc == pc = "idle" /\ Say("argc", NULL, "argc", {})

(* exec_unknown, exec_noop, exec_quit and exec_shutdown: the reply is all.   *)
exec_constant(op) == pc = "idle" /\ Say(op, NULL, op, {})

exec_type(k) == pc = "idle" /\ Say("type", k, "string", {htable_type(k)})

(* SET with a key alone stores "" under it; without arguments it is right,   *)
(* too, and does nothing.                                                    *)
exec_set(k, v) == pc = "idle" /\ Write("set", k, "ok", htable_set(k, v))
exec_set_nothing == pc = "idle" /\ Say("set", NULL, "ok", {})

Query(op, k, type, val) == Typed(op, k, type, Say(op, k, "value", val))

exec_get(k) == Query("get", k, "string", {htable_get(k)})

(* Of the length the model has whether it is 0. *)
exec_strlen(k) == Query("strlen", k, "string", {Bit(htable_get(k) \notin {NULL, EMPTY})})

exec_hget(k, f) == Query("hget", k, "hash", {htable_hget(k, f)})
exec_hexists(k, f) == Query("hexists", k, "hash", {Bit(htable_hget(k, f) # NULL)})
exec_hlen(k) == Query("hlen", k, "hash", {htable_hlen(k)})

(* HGETALL, HKEYS and HVALS show the same entries, or one side of them; the  *)
(* model has which, not their order and not the texts as array items.        *)
exec_hgetall(op, k) == Query(op, k, "hash", htable_hgetall(k))

exec_llen(k) == Query("llen", k, "list", {htable_llen(k)})
exec_sismember(k, m) == Query("sismember", k, "set", {Bit(htable_sismember(k, m))})
exec_smembers(k) == Query("smembers", k, "set", htable_smembers(k))

(* Broken variant: the type of the key is not looked at. *)
exec_incrby_untyped(op, k, sign, by) ==
    /\ pc = "idle" /\ is_number(by)
    /\ Write(op, k, "int", htable_set(k, intostr(strtoi(by))))

(* INCR, DECR, INCRBY, DECRBY: by is the amount, sign is 1 or -1.  A missing *)
(* key is set to the amount for DECRBY too, and with an amount that is not a *)
(* number is_number reads a null pointer.                                    *)
exec_incrby(op, k, sign, by) ==
    LET old == htable_get(k)
        new == IF old = NULL THEN IF op = "decr" THEN -1 ELSE strtoi(by)
               ELSE ToInt(strtoi(old) + sign * strtoi(by))
    IN  Typed(op, k, "string",
          \/ /\ is_number(by) /\ (old = NULL \/ is_number(old))
             /\ store' = htable_set(k, intostr(new)).store /\ before' = store'
             /\ Answer(op, k, "int", {new})
          \/ /\ old # NULL /\ ~ (is_number(by) /\ is_number(old))
             /\ Say(op, k, "intid", {})
          \/ /\ old = NULL /\ ~ is_number(by)
             /\ pc' = "crashed"
             /\ UNCHANGED <<store, before, cmd, oks, res, reply>>)

Increment ==
    \E k \in Keys :
        \/ exec_incrby("incr", k, 1, intostr(1)) \/ exec_incrby("decr", k, -1, intostr(1))
        \/ \E by \in Texts :
            exec_incrby("incrby", k, 1, by) \/ exec_incrby("decrby", k, -1, by)

-----------------------------------------------------------------------------
(* Lists. *)
exec_pop(k, dir) == Typed("pop", k, "list", Write("pop", k, "string", htable_pop(k, dir)))

exec_lpos(k, v) ==
    Query("lpos", k, "list", {IF htable_lpos(k, v) < 0 THEN NULL ELSE htable_lpos(k, v)})

(* A text that should be an index or a count. *)
Numbered(op, k, v, A) == (~ is_number(v) /\ Say(op, k, "intid", {})) \/ (is_number(v) /\ A)

exec_lrem(k, n, v) ==
    Typed("lrem", k, "list",
        Numbered("lrem", k, n, Write("lrem", k, "int", htable_lrem(k, strtoi(n), v))))

(* htable_check_id: an index outside the list is an error, a missing key has *)
(* a nil at every index.                                                     *)
Indexed(op, k, i, A) ==
    \/ ~ htable_exists(k) /\ Say(op, k, "value", {NULL})
    \/ htable_exists(k) /\ i \notin DOMAIN ElementsOf(k) /\ Say(op, k, "intid", {})
    \/ htable_exists(k) /\ i \in DOMAIN ElementsOf(k) /\ A

exec_lindex(k, id) ==
    LET i == Position(k, strtoi(id))
    IN  Typed("lindex", k, "list", Numbered("lindex", k, id,
            Indexed("lindex", k, i, Say("lindex", k, "value", {ElementsOf(k)[i]}))))

exec_lset(k, id, v) ==
    LET i == Position(k, strtoi(id))
    IN  Typed("lset", k, "list", Numbered("lset", k, id,
            Indexed("lset", k, i, Write("lset", k, "ok", htable_lset(k, i, v)))))

exec_lrange(k, begin, end) ==
    LET i == Position(k, strtoi(begin))
        j == Position(k, strtoi(end))
    IN  Typed("lrange", k, "list", Numbered("lrange", k, begin, Numbered("lrange", k, end,
            \/ NoArray("lrange", k)
            \/ /\ htable_exists(k)
               /\ IF i <= j /\ {i, j} \subseteq DOMAIN ElementsOf(k)
                  THEN Say("lrange", k, "array", reply_array(SubSeq(ElementsOf(k), i, j)))
                  ELSE Say("lrange", k, "intid", {}))))

-----------------------------------------------------------------------------
(* Commands with a loop. *)
exec_keys(op, keys) == Begin(op, NULL, keys)   \* DEL, EXISTS, MSET

(* The type is looked at once, for the first key. *)
exec_mget(keys) == Typed("mget", keys[1], "string", Begin("mget", NULL, keys))

exec_hash(op, k, fields) == Typed(op, k, "hash", Begin(op, k, fields))   \* HSET, HDEL
exec_set_members(op, k, ms) == Typed(op, k, "set", Begin(op, k, ms))     \* SADD, SREM

exec_hmget(k, fields) ==
    Typed("hmget", k, "hash", NoArray("hmget", k) \/
        (htable_exists(k) /\ Begin("hmget", k, fields)))

exec_smismember(k, ms) ==
    Typed("smismember", k, "set", NoArray("smismember", k) \/
        (htable_exists(k) /\ Begin("smismember", k, ms)))

(* The bound on lists: a push that would exceed it is not issued. *)
exec_push(op, k, vs) ==
    Typed(op, k, "list", htable_llen(k) + Len(vs) <= MaxLength /\ Begin(op, k, vs))

Arrays == {"mget", "hmget", "smismember"}

(* What the iteration for x does, with v for the value that goes with x. *)
Effect(op, k, x, v) ==
    CASE op = "del"    -> htable_del(x)
      [] op = "exists" -> Unchanged(Bit(htable_exists(x)))
      [] op = "mset"   -> htable_set(x, v)
      [] op = "mget"   -> Unchanged(htable_get(x))
      [] op = "hset"   -> htable_hset(k, x, v)
      [] op = "hdel"   -> htable_hdel(k, x)
      [] op = "hmget"  -> Unchanged(htable_hget(k, x))
      [] op = "lpush"  -> htable_push(k, x, "left")
      [] op = "rpush"  -> htable_push(k, x, "right")
      [] op = "sadd"   -> htable_sadd(k, x)
      [] op = "srem"   -> htable_srem(k, x)
      [] op = "smismember" -> Unchanged(intostr(Bit(htable_sismember(k, x))))

(* Broken variant: an item that is not found is left out of the array. *)
Collect_found(o) ==
    /\ oks' = IF cmd.op \in {"lpush", "rpush"} THEN o.res
              ELSE IF cmd.op \in Arrays THEN oks ELSE oks + o.res
    /\ res' = IF cmd.op \in Arrays /\ o.res # NULL THEN Append(res, o.res) ELSE res

(* A push answers the last length, an array all that was found; the other    *)
(* loops count.                                                              *)
Collect(o) ==
    /\ oks' = IF cmd.op \in {"lpush", "rpush"} THEN o.res
              ELSE IF cmd.op \in Arrays THEN oks ELSE oks + o.res
    /\ res' = IF cmd.op \in Arrays THEN Append(res, o.res) ELSE res

Iterate ==
    /\ pc = "loop" /\ cmd.next \in DOMAIN cmd.items
    /\ \E v \in IF cmd.op \in {"mset", "hset"} THEN Given ELSE {NULL} :
        LET o == Effect(cmd.op, cmd.key, cmd.items[cmd.next], v)
        IN  store' = o.store /\ Collect(o)
    /\ cmd' = [cmd EXCEPT !.next = @ + 1]
    /\ UNCHANGED <<before, reply, pc>>

Finish ==
    /\ pc = "loop" /\ cmd.next \notin DOMAIN cmd.items
    /\ CASE cmd.op = "mset"    -> Answer(cmd.op, cmd.key, "ok", {})
         [] cmd.op \in Arrays  -> Answer(cmd.op, cmd.key, "array", reply_array(res))
         [] OTHER              -> Answer(cmd.op, cmd.key, "int", {oks})
    /\ before' = store
    /\ UNCHANGED store

-----------------------------------------------------------------------------
ItemsOf(S) == UNION {[1 .. n -> S] : n \in 1 .. MaxItems}

Constant == {"unknown", "noop", "quit", "shutdown"}

Commands ==
    {"del", "exists", "type", "set", "get", "mset", "mget", "incr", "decr", "incrby",
     "decrby", "strlen", "hset", "hget", "hdel", "hgetall", "hexists", "hkeys", "hvals",
     "hmget", "hlen", "lpush", "rpush", "pop", "llen", "lindex", "lrange", "lset", "lrem",
     "lpos", "sadd", "srem", "sismember", "smembers", "smismember"}

StringCommand ==
    \/ exec_set_nothing
    \/ \E k \in Keys :
        exec_type(k) \/ exec_get(k) \/ exec_strlen(k) \/ \E v \in Given : exec_set(k, v)

HashCommand ==
    \E k \in Keys :
        \/ exec_hlen(k) \/ \E op \in {"hgetall", "hkeys", "hvals"} : exec_hgetall(op, k)
        \/ \E f \in Names : exec_hget(k, f) \/ exec_hexists(k, f)
        \/ \E fields \in ItemsOf(Names) :
            exec_hmget(k, fields) \/ \E op \in {"hset", "hdel"} : exec_hash(op, k, fields)

ListCommand ==
    \E k \in Keys :
        \/ exec_llen(k) \/ \E dir \in {"left", "right"} : exec_pop(k, dir)
        \/ \E vs \in ItemsOf(Names), op \in {"lpush", "rpush"} : exec_push(op, k, vs)
        \/ \E id \in Texts : exec_lindex(k, id) \/ \E end \in Texts : exec_lrange(k, id, end)
        \/ \E v \in Names :
            exec_lpos(k, v) \/ \E id \in Texts : exec_lset(k, id, v) \/ exec_lrem(k, id, v)

SetCommand ==
    \E k \in Keys :
        \/ exec_smembers(k) \/ \E m \in Names : exec_sismember(k, m)
        \/ \E ms \in ItemsOf(Names) :
            exec_smismember(k, ms) \/ \E op \in {"sadd", "srem"} : exec_set_members(op, k, ms)

KeysCommand ==
    \E keys \in ItemsOf(Keys) :
        exec_mget(keys) \/ \E op \in {"del", "exists", "mset"} : exec_keys(op, keys)

Next ==
    \/ exec_argc \/ \E op \in Constant : exec_constant(op)
    \/ StringCommand \/ Increment \/ HashCommand \/ ListCommand \/ SetCommand \/ KeysCommand
    \/ Iterate \/ Finish

Spec == Init /\ [][Next]_vars

-----------------------------------------------------------------------------
(* Type invariant. *)
TypeOK ==
    /\ \A k \in Keys : store[k] # NULL => store[k] \in Entry
    /\ DOMAIN store = Keys /\ DOMAIN before = Keys
    /\ cmd.op \in Commands \cup {"none"} /\ cmd.key \in Keys \cup {NULL}
    /\ cmd.items \in Seq(Keys \cup Names) /\ cmd.next \in 1 .. Len(cmd.items) + 1
    /\ oks \in Nat /\ Len(res) < cmd.next
    /\ reply.op \in Commands \cup Constant \cup {"none", "argc"} /\ reply.key \in Keys \cup {NULL}
    /\ pc \in {"idle", "loop", "crashed"}

Size(s, k) ==
    IF s[k] = NULL THEN 0
    ELSE CASE s[k].type = "hash" -> Cardinality(Fields(s[k]))
           [] s[k].type = "list" -> Len(s[k].elements)
           [] s[k].type = "set"  -> Cardinality(s[k].members)

(* A command of several items answers the net effect of its whole loop, even *)
(* when items repeat or the key is deleted or created on the way.            *)
RepliesCount ==
    [][pc = "loop" /\ pc' = "idle" /\ reply'.tag = "int" =>
        LET k == cmd.key
            n == CHOOSE x \in reply'.val : TRUE
        IN  CASE cmd.op = "del" ->
                    n = Cardinality({x \in Keys : before[x] # NULL /\ store[x] = NULL})
              [] cmd.op = "exists" ->
                    n = Cardinality({i \in DOMAIN cmd.items : before[cmd.items[i]] # NULL})
              [] cmd.op \in {"hset", "sadd"} -> n = Size(store, k) - Size(before, k)
              [] cmd.op \in {"hdel", "srem"} -> n = Size(before, k) - Size(store, k)
              [] cmd.op \in {"lpush", "rpush"} -> n = Size(store, k)]_vars

(* What a command of one item replies where an array has the item x. *)
SingleReply(op, k, x) ==
    CASE op = "mget"       -> reply_string(IF is_type(x, "string") THEN htable_get(x) ELSE GARBAGE)
      [] op = "hmget"      -> reply_string(htable_hget(k, x))
      [] op = "smismember" -> reply_integer(Bit(htable_sismember(k, x)))

(* An array has one item for each key, field or member that was named, in    *)
(* their order, and the item is the reply of GET, HGET or SISMEMBER for it,  *)
(* with two exceptions.  A string that reads as a number comes as the        *)
(* integer, so that "7" is no string any more, and "07" is not told from it, *)
(* nor "" and "-" from 0.  And MGET makes a text of the bytes of a key of    *)
(* another type, if that is not the first.                                   *)
ArraysAgree ==
    [][pc = "loop" /\ pc' = "idle" /\ cmd.op \in Arrays =>
        /\ DOMAIN reply'.val = DOMAIN cmd.items
        /\ \A i \in DOMAIN cmd.items :
            LET item == reply'.val[i]
                one  == SingleReply(cmd.op, cmd.key, cmd.items[i])
            IN  /\ IF one.tag = "string" /\ one.val \in Texts \ Words
                   THEN item.tag = "integer" /\ item.val = strtoi(one.val)
                   ELSE item = one
                /\ i = 1 => one # reply_string(GARBAGE)]_vars

(* A key keeps its type as long as it exists, except under SET and MSET.     *)
TypeIsKept ==
    [][\A k \in Keys :
        store[k] # NULL /\ store'[k] # NULL /\ store'[k].type # store[k].type =>
            cmd.op = "mset" \/ (pc = "idle" /\ reply'.op = "set")]_vars

(* examples.md: "INCRBY mykey also_not_a_number -> ERR value is not an       *)
(* integer or out of range", and the server goes on.                         *)
NoCrash == pc # "crashed"
=============================================================================
