----------------------------- MODULE MPIMatching ----------------------------
(***************************************************************************)
(* What MPI promises about point-to-point matching, with no trace of how   *)
(* Aislinn schedules ranks, keeps request tables or forks program states.  *)
(*                                                                         *)
(* Sends and receives are posted and pairs of them are matched, for ever.  *)
(* A step may match several pairs at once (one MPI_Waitall decides several *)
(* receives); after it the whole set of pairs must respect the             *)
(* non-overtaking rule.                                                    *)
(***************************************************************************)
EXTENDS Integers

CONSTANT AnySource      \* MPI_ANY_SOURCE

VARIABLES
    sends,    \* posted sends,    records [from, to, tag, seq]
    recvs,    \* posted receives, records [rank, sender, tag, post]
    matched   \* pairs            [send, recv]

matchingVars == <<sends, recvs, matched>>

Accepts(r, s) ==
    /\ s.to = r.rank
    /\ r.sender = AnySource \/ s.from = r.sender
    /\ s.tag = r.tag

(* seq and post order what one rank did.                                   *)
SentBefore(s, t) == s.from = t.from /\ s.seq < t.seq
PostedBefore(r, q) == r.rank = q.rank /\ r.post < q.post

WasReceived(s, M) == \E p \in M : p.send = s
WasFilled(r, M) == \E p \in M : p.recv = r

PairsAreOneToOne(M) ==
    \A p, q \in M : (p.send = q.send \/ p.recv = q.recv) => p = q

PairsFit(M) == \A p \in M : Accepts(p.recv, p.send)

(* No receive takes a send while an older send of the same rank, which it  *)
(* would have accepted, is left behind.                                    *)
SendsDoNotOvertake(S, M) ==
    \A p \in M : \A s \in S :
        SentBefore(s, p.send) /\ Accepts(p.recv, s) => WasReceived(s, M)

(* No send goes to a receive while an older receive of the same rank,      *)
(* which would have accepted it, is left empty.                            *)
RecvsDoNotOvertake(R, M) ==
    \A p \in M : \A r \in R :
        PostedBefore(r, p.recv) /\ Accepts(r, p.send) => WasFilled(r, M)

(* Two sends of one rank do not cross on their way to two receives.        *)
PairsDoNotCross(M) ==
    \A p, q \in M :
        SentBefore(p.send, q.send) /\ Accepts(q.recv, p.send)
            => ~ PostedBefore(q.recv, p.recv)

NonOvertaking(S, R, M) ==
    /\ PairsAreOneToOne(M)
    /\ PairsFit(M)
    /\ SendsDoNotOvertake(S, M)
    /\ RecvsDoNotOvertake(R, M)
    /\ PairsDoNotCross(M)

-----------------------------------------------------------------------------
MatchingInit == sends = {} /\ recvs = {} /\ matched = {}

PostSend(s) ==
    /\ s \notin sends
    /\ \A t \in sends : t.from = s.from => SentBefore(t, s)
    /\ sends' = sends \cup {s}
    /\ UNCHANGED <<recvs, matched>>

PostRecv(r) ==
    /\ r \notin recvs
    /\ \A q \in recvs : q.rank = r.rank => PostedBefore(q, r)
    /\ recvs' = recvs \cup {r}
    /\ UNCHANGED <<sends, matched>>

Match(M) ==
    /\ M # {}
    /\ M \cap matched = {}
    /\ \A p \in M : p.send \in sends /\ p.recv \in recvs
    /\ matched' = matched \cup M
    /\ NonOvertaking(sends, recvs, matched')
    /\ UNCHANGED <<sends, recvs>>

(* The records come from the step itself, so that no bound is needed.      *)
MatchingNext ==
    \/ \E s \in sends' \ sends : PostSend(s)
    \/ \E r \in recvs' \ recvs : PostRecv(r)
    \/ Match(matched' \ matched)

MatchingSpec == MatchingInit /\ [][MatchingNext]_matchingVars
=============================================================================
