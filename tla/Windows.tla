------------------------------- MODULE Windows -------------------------------
(***************************************************************************)
(* What a window does over its connection to the shared worker, one part   *)
(* of it in each behaviour: the exchange of requests and replies itself,   *)
(* the commit of unions, and the saves of a source's views.  The parts     *)
(* that are not under way rest in their initial states.                    *)
(***************************************************************************)
EXTENDS WorkspaceSaves

CONSTANTS           \* of UnionCommit
    UnionView,      \* its View
    UnionWindow,    \* its WindowOf
    UnionPlans,     \* its Plans
    Sources, MaxWindows, MaxReceipts

CONSTANTS MaxRequests, MaxStale     \* of ClientExchange

\* A union has one window, its sources are different ones, and users and faults
\* are counted; at least one stale id is remembered.
ASSUME WindowsAssumption ==
    /\ UnionWindow \in [UnionView -> Window]
    /\ Sources \in Seq({Sources[k] : k \in DOMAIN Sources})
    /\ UnionPlans \subseteq
          [views : SUBSET UnionView, candidates : Nat, revisions : Nat,
           splits : SUBSET Nat, moves : Nat, updates : Nat, timeouts : Nat]
    /\ MaxRequests \in Nat
    /\ MaxStale \in Nat \ {0}

VARIABLES
    part,       \* the part that is under way
    fence, written, writing, cloned, updates, overrun, slots, next_epoch,
    handler, guards, inbox, seen, revision, current, union_pending, published,
    refresh, union_failed, completed, union_inflight, job, task, lapses,
    union_plan, verdict,                                            \* of UnionCommit
    next, kind, queue, wire, exchange, batch, in_flight, given_up, stale,
    closed, reply, culprit                              \* of ClientExchange

Union == INSTANCE UnionCommit WITH
    View <- UnionView, WindowOf <- UnionWindow, Plans <- UnionPlans,
    pending <- union_pending, failed <- union_failed,
    inflight <- union_inflight, plan <- union_plan

Exchange == INSTANCE ClientExchange WITH
    current <- exchange, retired <- given_up, answer <- reply

unionVars == <<fence, written, writing, cloned, updates, overrun, slots,
    next_epoch, handler, guards, inbox, seen, revision, current, union_pending,
    published, refresh, union_failed, completed, union_inflight, job, task,
    lapses, union_plan, verdict>>
exchangeVars == <<next, kind, queue, wire, exchange, batch, in_flight, given_up,
    stale, closed, reply, culprit>>
windowsVars == <<part, vars, unionVars, exchangeVars>>

WindowsInit ==
    /\ part \in {"saves", "union", "exchange"}
    /\ Init /\ Union!Init /\ Exchange!Init
    /\ part # "saves" => /\ rows[Canonical] = Nothing /\ available
                         /\ plan = CHOOSE p \in Plans : TRUE
    /\ part # "union" => union_plan = CHOOSE p \in UnionPlans : TRUE

WindowsNext ==
    \/ part = "saves" /\ Next /\ UNCHANGED <<part, unionVars, exchangeVars>>
    \/ part = "union" /\ Union!Next /\ UNCHANGED <<part, vars, exchangeVars>>
    \/ part = "exchange" /\ Exchange!Next /\ UNCHANGED <<part, vars, unionVars>>

\* The fairness of the parts, each of its own part.
WindowsFairness ==
    /\ \A w \in Window : WF_vars(part = "saves" /\ WindowWorks(w))
    /\ WF_unionVars(part = "union" /\ Union!SystemStep)

WindowsSpec == WindowsInit /\ [][WindowsNext]_windowsVars /\ WindowsFairness

\* A candidate is committed only while the fences of all its sources are the
\* frozen ones at once, but for a state that is updated under the commit's own
\* guard (mediated_union_commit).
AttestsPublications == Union!AttestsPublications

\* A union never goes back to an older candidate (install_union_locked).
NeverGoesBack == Union!NeverGoesBack

\* What is installed was committed under these very fences (install_union_locked).
InstalledIsAttested == Union!InstalledIsAttested

\* A union catches up with its sources, or its last candidate is settled or was
\* rejected for good.
CatchesUp == Union!CatchesUp

\* No reply answers another request than its own (check_batch, store_recoverable).
AnswersOwnRequest == Exchange!AnswersOwnRequest

\* Every reply yet to come on a usable connection is remembered (remember_stale).
LateRepliesRemembered == Exchange!LateRepliesRemembered
=============================================================================
