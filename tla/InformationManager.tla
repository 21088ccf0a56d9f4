------------------------- MODULE InformationManager -------------------------
(***************************************************************************)
(* The Information manager of gwd (gw_im_*.c), the host pool it fills      *)
(* (gw_host_pool.c, gw_host.c) and its MAD, im_mad.py, which answers one   *)
(* query after another.                                                    *)
(***************************************************************************)
EXTENDS Scheduler

CONSTANTS
  Capacity,               \* QUEUE_MAXJOBSINQUEUE the MAD reports for a host
  Priority,               \* sched.conf: the fixed priority of a host
  max_active_im_queries,  \* gwd.conf
  Monitored0,             \* hosts that were discovered and monitored before
  MaxEvents               \* bound: timers fired and, counted twice, faults

ASSUME IMAssumption ==
  /\ Capacity \in [Hosts -> Nat \ {0}]
  /\ Priority \in [Hosts -> 0..20]
  /\ max_active_im_queries \in Nat \ {0}
  /\ Monitored0 \subseteq Hosts
  /\ Cardinality(Monitored0) <= max_active_im_queries \* asked in one scan, see IMInit
  /\ MaxEvents \in Nat

VARIABLES
  pool,          \* gw_host_pool.pool: the hosts in their order
  host,          \* of a host: state, fixed_priority, slots (queue_maxjobsinqueue),
                 \* queue (its queue is known), checked (last_monitoring_time is not 0)
  last_checked,
  discovering,   \* the MAD's state is DISCOVERING
  active_queries,
  queries,       \* written to the MAD and not answered
  resources,     \* im_mad.py's _resources: the hosts it can monitor
  events      \* timers and faults so far

imtables == <<pool, host, last_checked, discovering, active_queries, queries, resources>>
imv == <<imtables, events>>

DISCOVER == [act |-> "DISCOVER"]
MONITOR(h) == [act |-> "MONITOR", hid |-> h]

States == {"NONE", "DISCOVERED", "MONITORING", "MONITORED", "UNKNOWN"}

NewHost(h) == [state |-> "DISCOVERED", fixed_priority |-> Priority[h], slots |-> 0,
               queue |-> FALSE, checked |-> FALSE]

WithAnswer(r, h) == [r EXCEPT !.state = "MONITORED", !.slots = Capacity[h], !.queue = TRUE]

\* Either gwd has just started, or its timer has just asked for the hosts and for
\* news of those it knows.
IMInit ==
  LET known == SetToSeq(Monitored0)
      asked == IF known = <<>> THEN <<>>
               ELSE <<DISCOVER>> \o [i \in DOMAIN known |-> MONITOR(known[i])]
  IN
  /\ pool = known
  /\ host = [h \in Hosts |-> IF h \in Monitored0
                               THEN [WithAnswer(NewHost(h), h) EXCEPT !.state = "MONITORING",
                                                                      !.checked = TRUE]
                               ELSE [NewHost(h) EXCEPT !.state = "NONE"]]
  /\ last_checked = IF known = <<>> THEN 0 ELSE Len(known) - 1
  /\ discovering = (known # <<>>)
  /\ active_queries = Len(asked)
  /\ queries = asked
  /\ resources = Monitored0
  /\ events = 0

Spend(n) == events + n <= MaxEvents /\ events' = events + n

Fault == Spend(2)

-----------------------------------------------------------------------------
(* The timer.                                                              *)

\* What a timer does, in its order: a state of the scan of the pool.
Scan == [active |-> active_queries, sent |-> <<>>, host |-> host, last |-> last_checked]

\* gw_im_discover
Discover(s) ==
  IF discovering THEN s
  ELSE [s EXCEPT !.active = @ + 1, !.sent = Append(@, DISCOVER)]

\* gw_im_monitor, called for a host whose monitoring is due: a host that is not
\* ready counts as checked all the same.
Monitor(s, i) ==
  LET h    == pool[i]
      seen == [s EXCEPT !.last = i - 1, !.host[h].checked = TRUE]
  IN IF s.host[h].state \in {"DISCOVERED", "MONITORED"}
       THEN [seen EXCEPT !.host[h].state = "MONITORING", !.active = @ + 1,
                         !.sent = Append(@, MONITOR(h))]
       ELSE seen

\* The i-th host that the scan looks at: it begins after the last one checked.
Turn(i) == 1 + ((last_checked + i) % Len(pool))

\* due are the hosts whose interval has passed.
Visit(s, i, due) ==
  IF /\ s.active < max_active_im_queries
     /\ ~s.host[pool[i]].checked \/ pool[i] \in due
  THEN Monitor(s, i) ELSE s

\* gw_host_pool_monitor_hosts
MonitorHosts(s, due) ==
  LET scan[i \in 0..Len(pool)] ==
        IF i = 0 THEN s ELSE Visit(scan[i - 1], Turn(i), due)
  IN scan[Len(pool)]

\* gw_im_timer
Timer ==
  /\ Spend(1)
  /\ \E discover \in BOOLEAN, due \in SUBSET ToSet(pool) :
       LET s == MonitorHosts(IF discover THEN Discover(Scan) ELSE Scan, due) IN
       /\ host' = s.host
       /\ last_checked' = s.last
       /\ active_queries' = s.active
       /\ queries' = queries \o s.sent
       /\ discovering' = (discovering \/ discover)
  /\ UNCHANGED <<pool, resources>>

-----------------------------------------------------------------------------
(* The answers of the MAD.                                                 *)

Answered(act) ==
  /\ queries # <<>>
  /\ Head(queries).act = act
  /\ queries' = Tail(queries)
  /\ active_queries' = active_queries - 1
  /\ UNCHANGED last_checked

\* Mutant: a host that is being monitored is discovered again.
RediscoveredAny(h) == [host[h] EXCEPT !.state = "DISCOVERED"]

\* gw_host_pool_update, of a host of the pool.
Rediscovered(h) ==
  IF host[h].state = "UNKNOWN" THEN [host[h] EXCEPT !.state = "DISCOVERED"] ELSE host[h]

\* DISCOVER SUCCESS: do_DISCOVER lists the hosts of the resources it reached.
Discovered ==
  /\ Answered("DISCOVER")
  /\ \E found \in SUBSET Hosts :
       LET new == found \ ToSet(pool) IN
       /\ IF found = Hosts THEN UNCHANGED events ELSE Fault
       /\ pool' = pool \o SetToSeq(new)
       /\ host' = [h \in Hosts |-> IF h \in new THEN NewHost(h)
                                   ELSE IF h \in found THEN Rediscovered(h) ELSE host[h]]
       /\ resources' = found
  /\ discovering' = FALSE

\* DISCOVER FAILURE: the configuration has errors.
DiscoverFails ==
  /\ Answered("DISCOVER")
  /\ Fault
  /\ discovering' = FALSE
  /\ UNCHANGED <<pool, host, resources>>

\* MONITOR SUCCESS: gw_host_update.
Monitored(h) ==
  /\ Answered("MONITOR")
  /\ h = Head(queries).hid
  /\ h \in resources
  /\ host' = [host EXCEPT ![h] = WithAnswer(@, h)]
  /\ UNCHANGED <<pool, discovering, resources, events>>

\* MONITOR SUCCESS with attributes that do not parse.
Garbled(h) ==
  /\ Answered("MONITOR")
  /\ h = Head(queries).hid
  /\ h \in resources
  /\ Fault
  /\ host' = [host EXCEPT ![h].state = "UNKNOWN"]
  /\ UNCHANGED <<pool, discovering, resources>>

\* MONITOR FAILURE: gw_host_clear_dynamic_info, which clears the fixed priority
\* too.  A MAD that did not discover the host does not know it.
MonitorFails(h) ==
  /\ Answered("MONITOR")
  /\ h = Head(queries).hid
  /\ IF h \in resources THEN Fault ELSE UNCHANGED events
  /\ host' = [host EXCEPT ![h].state = "UNKNOWN", ![h].fixed_priority = 0, ![h].slots = 0,
                           ![h].checked = FALSE]
  /\ UNCHANGED <<pool, discovering, resources>>

\* The MAD dies and is started again, gw_im_mad_reload: what was asked of the old
\* one is neither asked again nor forgotten.
MadCrash ==
  /\ Fault
  /\ queries' = <<>>
  /\ resources' = {}
  /\ UNCHANGED <<pool, host, last_checked, discovering, active_queries>>

\* The steps that tell the scheduler nothing.
Silent ==
  \/ Timer \/ Discovered \/ DiscoverFails \/ MadCrash
  \/ \E h \in Hosts : Garbled(h)
=============================================================================
