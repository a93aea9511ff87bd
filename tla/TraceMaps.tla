------------------------------ MODULE TraceMaps ------------------------------
(***************************************************************************)
(* The trace plane of the daemon: the tracesession runner and the store    *)
(* behind it, which the debug server, the event reader and the collector   *)
(* of expired sessions share under one lock.                               *)
(*                                                                         *)
(*   TraceSession  [id, gen, tuples, until, del]                           *)
(*                                                                         *)
(* trace_tuple_map gives a tuple the trace it belongs to; a packet on the  *)
(* tuple is reported while trace_config knows the trace.  kernel.clock is  *)
(* the time.                                                               *)
(***************************************************************************)
EXTENDS ServiceMaps

StoreFree == "tracesession" \in DOMAIN running => running["tracesession"] = None

Recorded(id) == Has("trace_sessions", id)
OwnedBy(id) == {t \in DOMAIN tables.trace_tuple_map : tables.trace_tuple_map[t] = id}

refreshActiveCount(sessions) == Put("trace_active", 0, Cardinality(sessions))

deleteTupleIfOwned(t, id) == When(t \in OwnedBy(id), <<Del("trace_tuple_map", t)>>)

(* Mutant: Apply deletes every tuple that is not asked for, the learned ones too. *)
SweepsWhatIsNotAsked(s) ==
    LET prev == IF Recorded(s.id) THEN tables.trace_sessions[s.id]
                ELSE [gen |-> 0, tuples |-> {}, until |-> 0]
    IN  IF s.id = 0 THEN <<Error>>
        ELSE IF prev.gen > s.gen THEN <<>>
        ELSE <<Put("trace_config", s.id, s.gen)>>
             \o Each(OwnedBy(s.id) \ s.tuples, LAMBDA t : Del("trace_tuple_map", t))
             \o Each(s.tuples, LAMBDA t : Put("trace_tuple_map", t, s.id))
             \o <<Keep("trace_sessions", s.id,
                        [gen |-> s.gen, tuples |-> s.tuples, until |-> s.until]),
                  refreshActiveCount(DOMAIN tables.trace_sessions \cup {s.id})>>

(* An older generation of a session than the one recorded is ignored. *)
StoreApply(s) ==
    LET prev == IF Recorded(s.id) THEN tables.trace_sessions[s.id]
                ELSE [gen |-> 0, tuples |-> {}, until |-> 0]
    IN  IF s.id = 0 THEN <<Error>>
        ELSE IF prev.gen > s.gen THEN <<>>
        ELSE <<Put("trace_config", s.id, s.gen)>>
             \o FlattenSeq(Each(prev.tuples \ s.tuples, LAMBDA t : deleteTupleIfOwned(t, s.id)))
             \o Each(s.tuples, LAMBDA t : Put("trace_tuple_map", t, s.id))
             \o <<Keep("trace_sessions", s.id,
                        [gen |-> s.gen, tuples |-> s.tuples, until |-> s.until]),
                  refreshActiveCount(DOMAIN tables.trace_sessions \cup {s.id})>>

(* Whatever names the trace goes, learned tuples included. *)
deleteLocked(id) ==
    When(Recorded(id),
         <<Drop("trace_sessions", id)>>
         \o Each(OwnedBy(id), LAMBDA t : Del("trace_tuple_map", t))
         \o <<Del("trace_config", id), refreshActiveCount(DOMAIN tables.trace_sessions \ {id})>>)

deleteSpec(k, s) == deleteLocked(s.id) \o <<Drop("trace_ids", k)>>

deleteByName(k) ==
    When(Has("trace_ids", k), <<Drop("trace_ids", k)>> \o deleteLocked(tables.trace_ids[k]))

TracePass(k) ==
    LET s == Get(k) IN
    IF s = None THEN deleteByName(k)
    ELSE IF s.del \/ s.until < tables.kernel.clock THEN deleteSpec(k, s)
    ELSE StoreApply(s) \o <<Keep("trace_ids", k, s.id)>>

-----------------------------------------------------------------------------
StoreOnly == UNCHANGED <<cache, feed, queue, later, running, faults>>

(* The debug server passes on the tuple a packet has after translation. *)
LearnTuple(id, t) ==
    /\ StoreFree
    /\ Recorded(id)
    /\ t \notin tables.trace_sessions[id].tuples
    /\ tables' = [tables EXCEPT !.trace_tuple_map = With(@, t, id),
                                !.trace_sessions[id].tuples = @ \cup {t}]
    /\ StoreOnly

(* The reader learns the reply of a reported packet, which may come from   *)
(* the ring buffer after its session is gone; it takes no tuple over.      *)
learnReverseMirror(id, t) ==
    /\ StoreFree
    /\ Recorded(id)
    /\ ~ Has("trace_tuple_map", t)
    /\ tables' = [tables EXCEPT !.trace_tuple_map = With(@, t, id)]
    /\ StoreOnly

Expired == {id \in DOMAIN tables.trace_sessions :
                tables.trace_sessions[id].until < tables.kernel.clock}

(* traceGCLoop *)
TraceGC ==
    /\ StoreFree
    /\ Expired # {}
    /\ tables' = FoldLeft(Done, tables, FlattenSeq(Each(Expired, deleteLocked))
                    \o <<refreshActiveCount(DOMAIN tables.trace_sessions \ Expired)>>)
    /\ StoreOnly

Tick ==
    /\ tables' = [tables EXCEPT !.kernel.clock = @ + 1]
    /\ StoreOnly
=============================================================================
