------------------------------ MODULE TimerMgr ------------------------------
(***************************************************************************)
(* The client library's timers: the table m_timers of TimerMgr, as a       *)
(* sequence of slots.  A slot names the owner of the timer, which stands   *)
(* for its callback, and the time left; zero is a timer that is not        *)
(* active.                                                                 *)
(***************************************************************************)
EXTENDS Naturals, Sequences, FiniteSetsExt

Unallocated == [owner |-> "none", left |-> 0]

NoTimers(limit) == [i \in 1 .. limit |-> Unallocated]

\* The first free slot is taken; there always is one.
AllocTimer(ts, owner) ==
    [ts EXCEPT ![Min({i \in DOMAIN ts : ts[i] = Unallocated})].owner = owner]

FreeTimers(ts, owners) ==
    [i \in DOMAIN ts |-> IF ts[i].owner \in owners THEN Unallocated ELSE ts[i]]

TimerWait(ts, owner, ms) ==
    [i \in DOMAIN ts |-> IF ts[i].owner = owner THEN [ts[i] EXCEPT !.left = ms] ELSE ts[i]]

TimerCancel(ts, owner) ==
    [i \in DOMAIN ts |-> IF ts[i].owner = owner THEN [ts[i] EXCEPT !.left = 0] ELSE ts[i]]

Active(ts) == {ts[i].owner : i \in {j \in DOMAIN ts : ts[j].left > 0}}

TimerIsActive(ts, owner) == owner \in Active(ts)

\* Zero when no timer is active.
GetMinWait(ts) ==
    IF Active(ts) = {} THEN 0
    ELSE Min({ts[i].left : i \in {j \in DOMAIN ts : ts[j].left > 0}})

\* tick: the timers that are due are stopped before any callback runs.
Stopped(ts, ms) ==
    [i \in DOMAIN ts |-> [ts[i] EXCEPT !.left = IF @ > ms THEN @ - ms ELSE 0]]

\* The slots whose owners are called back then, in their order.
Due(ts, ms) == {i \in DOMAIN ts : ts[i].left \in 1 .. ms}
=============================================================================
