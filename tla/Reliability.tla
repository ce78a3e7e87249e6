---------------------------- MODULE Reliability ----------------------------
(***************************************************************************)
(* What sysmaster keeps so that a new process can go on where the last one *)
(* ended (core/lib/rel).  The record r holds                               *)
(*                                                                         *)
(*   db        the history on disk, from keys to values                    *)
(*   cache, add, del   the tables in memory, and what differs from db      *)
(*   ignore, last_ignore   changes of the history, of the last words, are  *)
(*             dropped                                                     *)
(*   unit, frame   the last words: the unit in work, "" if there is none,  *)
(*             and the stack of frames                                     *)
(*   enable    a new process is to recover                                 *)
(*                                                                         *)
(* The tables of the history are one here, with keys <<table, unit>>.  The *)
(* last words are written at once, the history in one transaction by       *)
(* commit.                                                                 *)
(***************************************************************************)
EXTENDS Integers, Sequences, TLC

NoRow == [k \in {} |-> 0]

NewReliability ==
    [db |-> NoRow, cache |-> NoRow, add |-> NoRow, del |-> {}, ignore |-> FALSE,
     last_ignore |-> FALSE, unit |-> "", frame |-> <<>>, enable |-> FALSE]

\* What a new process finds.
inherit(r) ==
    [NewReliability EXCEPT !.db = r.db, !.unit = r.unit, !.frame = r.frame, !.enable = r.enable]

-----------------------------------------------------------------------------
\* History (base.rs, history.rs)

insert(r, k, v) ==
    IF r.ignore THEN r
    ELSE [r EXCEPT !.del = @ \ {k}, !.add = (k :> v) @@ @, !.cache = (k :> v) @@ @]

remove(r, k) ==
    IF r.ignore THEN r
    ELSE [r EXCEPT !.add = [j \in DOMAIN @ \ {k} |-> @[j]], !.del = @ \cup {k},
                   !.cache = [j \in DOMAIN @ \ {k} |-> @[j]]]

contains_key(r, k) == k \in DOMAIN r.cache

get(r, k, default) == IF k \in DOMAIN r.cache THEN r.cache[k] ELSE default

keys(r, table) == {k[2] : k \in {j \in DOMAIN r.cache : j[1] = table}}

cache_2_db(r) == [k \in (DOMAIN r.db \cup DOMAIN r.add) \ r.del |-> (r.add @@ r.db)[k]]

commit(r) == [r EXCEPT !.db = cache_2_db(r), !.add = NoRow, !.del = {}]

db_2_cache(r) == [r EXCEPT !.add = NoRow, !.del = {}, !.cache = r.db]

import(r) == db_2_cache(r)

ignore_set(r, ignore) == [r EXCEPT !.ignore = ignore]

-----------------------------------------------------------------------------
\* Last words (last.rs).  clear_last_unit and clear_last_frame of api.rs commit the
\* history first.

last_ignore_set(r, ignore) == [r EXCEPT !.last_ignore = ignore]

set_last_unit(r, unit) == IF r.last_ignore THEN r ELSE [r EXCEPT !.unit = unit]

clear_unit(r) == IF r.last_ignore THEN r ELSE [r EXCEPT !.unit = ""]

set_last_frame(r, frame) == IF r.last_ignore THEN r ELSE [r EXCEPT !.frame = Append(@, frame)]

clear_frame(r) ==
    IF r.last_ignore \/ r.frame = <<>> THEN r ELSE [r EXCEPT !.frame = SubSeq(@, 1, Len(@) - 1)]

last_frame(r) == IF r.frame = <<>> THEN "" ELSE r.frame[Len(r.frame)]

set_enable(r, enable) == [r EXCEPT !.enable = enable]
=============================================================================
