-------------------------- MODULE ClaimableResource --------------------------
(***************************************************************************)
(* infra::ClaimableResource and its claimers: the exclusive access to a    *)
(* peripheral, a flash or a connection that every part of the library      *)
(* which shares one is built on.  All calls are made from actions of the   *)
(* event dispatcher, so a call is a step; the grant is given by a later    *)
(* action, ReEvaluateClaim, which calls the claimer back as its last       *)
(* statement, so what the callback does to the resource is a further step. *)
(***************************************************************************)
EXTENDS Naturals, Sequences, SequencesExt

CONSTANTS
    Claimers,   \* the places in memory a claimer may be constructed in
    None        \* nullptr

ASSUME ClaimersAssumption == None \notin Claimers

VARIABLES
    currentClaim,
    pendingClaims,
    reEvaluateClaimScheduled,   \* an action for ReEvaluateClaim is with the dispatcher
    isGranted, isQueued,        \* the flags of each claimer
    onGranted                   \* whether each claimer holds a callback

resource == <<currentClaim, pendingClaims, reEvaluateClaimScheduled>>
claimer == <<isGranted, isQueued, onGranted>>
resourceVars == <<resource, claimer>>

-----------------------------------------------------------------------------
(* The list of pending claims.                                              *)

\* IntrusiveList::erase, which leaves the list alone when the claimer is not in it
DequeueClaimer(c) ==
    IF \E i \in DOMAIN pendingClaims : pendingClaims[i] = c
    THEN RemoveAt(pendingClaims, CHOOSE i \in DOMAIN pendingClaims : pendingClaims[i] = c)
    ELSE pendingClaims

\* Mutant: the two ends of the list are swapped.
EnqueueClaimerSwapped(c, urgent) == IF urgent THEN Append(pendingClaims, c) ELSE <<c>> \o pendingClaims

EnqueueClaimer(c, urgent) == IF urgent THEN <<c>> \o pendingClaims ELSE Append(pendingClaims, c)

-----------------------------------------------------------------------------
(* The operations.                                                          *)

\* Claim and ClaimUrgent: really_assert(!onGranted), then AddClaim.  Mutant: the
\* re-evaluation is left to the release of the current claim.
ClaimWithoutSchedule(c, urgent) ==
    /\ ~onGranted[c]
    /\ onGranted' = [onGranted EXCEPT ![c] = TRUE]
    /\ isQueued' = [isQueued EXCEPT ![c] = TRUE]
    /\ pendingClaims' = EnqueueClaimer(c, urgent)
    /\ UNCHANGED <<currentClaim, reEvaluateClaimScheduled, isGranted>>

Claim(c, urgent) ==
    /\ ~onGranted[c]
    /\ onGranted' = [onGranted EXCEPT ![c] = TRUE]
    /\ isQueued' = [isQueued EXCEPT ![c] = TRUE]
    /\ pendingClaims' = EnqueueClaimer(c, urgent)
    /\ reEvaluateClaimScheduled' = (reEvaluateClaimScheduled \/ currentClaim = None)
    /\ UNCHANGED <<currentClaim, isGranted>>

\* With ClaimGranted of the claimer.
ReEvaluateClaim ==
    /\ reEvaluateClaimScheduled
    /\ reEvaluateClaimScheduled' = FALSE
    /\ \/ /\ currentClaim = None /\ pendingClaims # <<>>
          /\ currentClaim' = Head(pendingClaims)
          /\ pendingClaims' = Tail(pendingClaims)
          /\ isQueued' = [isQueued EXCEPT ![currentClaim'] = FALSE]
          /\ isGranted' = [isGranted EXCEPT ![currentClaim'] = TRUE]
          /\ onGranted' = [onGranted EXCEPT ![currentClaim'] = FALSE]
       \/ /\ currentClaim # None \/ pendingClaims = <<>>
          /\ UNCHANGED <<currentClaim, pendingClaims, claimer>>

\* RemoveClaim
RemoveClaim(c) ==
    \/ /\ currentClaim = c
       /\ currentClaim' = None
       /\ reEvaluateClaimScheduled' = TRUE
       /\ UNCHANGED pendingClaims
    \/ /\ currentClaim # c
       /\ pendingClaims' = DequeueClaimer(c)
       /\ UNCHANGED <<currentClaim, reEvaluateClaimScheduled>>

\* Release gives up the grant; without one, the place in the queue.
Release(c) ==
    /\ isGranted' = [isGranted EXCEPT ![c] = FALSE]
    /\ isQueued' = [isQueued EXCEPT ![c] = @ /\ isGranted[c]]
    /\ onGranted' = [onGranted EXCEPT ![c] = @ /\ isGranted[c]]
    /\ RemoveClaim(c)

\* ReleaseAllClaims: the grant first, then the place in the queue.
CurrentWithout(c) == IF isGranted[c] /\ currentClaim = c THEN None ELSE currentClaim
PendingWithout(c) == IF isQueued[c] THEN DequeueClaimer(c) ELSE pendingClaims
ScheduledWithout(c) == reEvaluateClaimScheduled \/ (isGranted[c] /\ currentClaim = c)

Destruct(c) ==
    /\ currentClaim' = CurrentWithout(c)
    /\ pendingClaims' = PendingWithout(c)
    /\ reEvaluateClaimScheduled' = ScheduledWithout(c)
    /\ isGranted' = [isGranted EXCEPT ![c] = FALSE]
    /\ isQueued' = [isQueued EXCEPT ![c] = FALSE]
    /\ onGranted' = [onGranted EXCEPT ![c] = FALSE]

\* Mutant: only a claim that waits is replaced.
NotReplaced(current, from, to) == current

\* ReplaceClaim, on what ReleaseAllClaims has left.
Replaced(current, from, to) == IF current = from THEN to ELSE current

\* Mutant: only a granted claim is taken along.
MoveOnlyGrant(from, to) ==
    /\ from # to
    /\ currentClaim' = Replaced(CurrentWithout(to), from, to)
    /\ pendingClaims' = PendingWithout(to)
    /\ reEvaluateClaimScheduled' = ScheduledWithout(to)
    /\ isGranted' = [isGranted EXCEPT ![to] = isGranted[from], ![from] = FALSE]
    /\ isQueued' = [isQueued EXCEPT ![to] = isQueued[from], ![from] = FALSE]
    /\ onGranted' = [onGranted EXCEPT ![to] = onGranted[from], ![from] = FALSE]

\* Move assignment; move construction when to has no claims yet.
Move(from, to) ==
    /\ from # to
    /\ currentClaim' = Replaced(CurrentWithout(to), from, to)
    /\ pendingClaims' = ReplaceAll(PendingWithout(to), from, to)
    /\ reEvaluateClaimScheduled' = ScheduledWithout(to)
    /\ isGranted' = [isGranted EXCEPT ![to] = isGranted[from], ![from] = FALSE]
    /\ isQueued' = [isQueued EXCEPT ![to] = isQueued[from], ![from] = FALSE]
    /\ onGranted' = [onGranted EXCEPT ![to] = onGranted[from], ![from] = FALSE]

-----------------------------------------------------------------------------

ResourceInit ==
    /\ currentClaim = None
    /\ pendingClaims = <<>>
    /\ reEvaluateClaimScheduled = FALSE
    /\ isGranted = [c \in Claimers |-> FALSE]
    /\ isQueued = [c \in Claimers |-> FALSE]
    /\ onGranted = [c \in Claimers |-> FALSE]

ClaimUrgent == \E c \in Claimers : Claim(c, TRUE)
MoveClaimer == \E from, to \in Claimers : Move(from, to)

ResourceNext ==
    \/ ClaimUrgent
    \/ ReEvaluateClaim
    \/ \E c \in Claimers : Claim(c, FALSE) \/ Release(c) \/ Destruct(c)
    \/ MoveClaimer

\* The dispatcher executes what is scheduled, and whoever has the resource
\* gives it up.
ResourceFairness ==
    /\ WF_resourceVars(ReEvaluateClaim)
    /\ WF_resourceVars(\E c \in Claimers : isGranted[c] /\ Release(c))

ResourceSpec == ResourceInit /\ [][ResourceNext]_resourceVars /\ ResourceFairness

-----------------------------------------------------------------------------
(* Properties.                                                              *)

ResourceTypeOK ==
    /\ currentClaim \in Claimers \cup {None}
    /\ pendingClaims \in Seq(Claimers)
    /\ reEvaluateClaimScheduled \in BOOLEAN
    /\ isGranted \in [Claimers -> BOOLEAN]
    /\ isQueued \in [Claimers -> BOOLEAN]
    /\ onGranted \in [Claimers -> BOOLEAN]

\* A claimer believes it has the resource exactly when the resource says so:
\* two claimers never have it at once, through moves and destruction, too.
GrantedExclusively == \A c \in Claimers : isGranted[c] <=> currentClaim = c

\* A claimer that waits is in the queue once, has a callback to be called, and
\* nobody else is in the queue: no callback is lost, and none is called for a
\* claimer that no longer waits or has been destroyed.
InQueue(c) == \E i \in DOMAIN pendingClaims : pendingClaims[i] = c
QueuedExactlyOnce ==
    /\ \A c \in Claimers : (isQueued[c] <=> InQueue(c)) /\ (onGranted[c] <=> InQueue(c))
    /\ \A i, j \in DOMAIN pendingClaims : pendingClaims[i] = pendingClaims[j] => i = j

\* When the resource is free and somebody waits for it, a re-evaluation is on
\* its way: no sequence of calls leaves the claimers waiting for nothing.
NoClaimForgotten ==
    currentClaim = None /\ pendingClaims # <<>> => reEvaluateClaimScheduled

\* Every claim is granted or withdrawn, unless urgent claims or claims moved over
\* waiting ones keep coming.
EveryClaimAnswered ==
    <>[][~ClaimUrgent /\ ~MoveClaimer]_resourceVars => \A c \in Claimers : isQueued[c] ~> ~isQueued[c]

=============================================================================
