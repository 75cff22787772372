--------------------------- MODULE PeerAgreement ---------------------------
(***************************************************************************)
(* What a reader decides from the sidecars' views of one WAL segment: the  *)
(* size agreement of internal/qwal and the replica choice of the sidecar's *)
(* own recovery reader.  A set of views is a function from the peers that  *)
(* answered and hold the segment to [size, sealed].                        *)
(***************************************************************************)
EXTENDS Integers, FiniteSets

Outcomes == {"NoPeers", "SealedDivergence", "UnsealedDivergence",
             "SealedAgreed", "ReadyToSeal", "QuorumTruncate"}

Sizes(views) == {views[p].size : p \in DOMAIN views}
SealedSizes(views) == {views[p].size : p \in {q \in DOMAIN views : views[q].sealed}}
CountAt(views, size) == Cardinality({p \in DOMAIN views : views[p].size = size})

\* Mutation: half of the views, without the one more.
QuorumOfAsHalf(views) == Cardinality(DOMAIN views) \div 2
\* floor(N/2)+1 of the views that were gathered, not of the configured peers.
QuorumOf(views) == Cardinality(DOMAIN views) \div 2 + 1
QuorumSizes(views) == {s \in Sizes(views) : CountAt(views, s) >= QuorumOf(views)}

Decision(outcome, size) == [outcome |-> outcome, size |-> size]

\* The checks of the code in their order; the size is -1 where none is agreed.
EvaluatePeerAgreementAsUnchecked(views) ==
    IF DOMAIN views = {} THEN Decision("NoPeers", -1)
    ELSE IF QuorumSizes(views) = {} THEN Decision("UnsealedDivergence", -1)
    ELSE LET size == CHOOSE s \in QuorumSizes(views) : TRUE IN
         IF SealedSizes(views) # {} THEN Decision("SealedAgreed", size)
         ELSE Decision(IF Sizes(views) = {size} THEN "ReadyToSeal" ELSE "QuorumTruncate", size)

EvaluatePeerAgreement(views) ==
    IF DOMAIN views = {} THEN Decision("NoPeers", -1)
    ELSE IF Cardinality(SealedSizes(views)) > 1 THEN Decision("SealedDivergence", -1)
    ELSE IF QuorumSizes(views) = {} THEN Decision("UnsealedDivergence", -1)
    ELSE LET size == CHOOSE s \in QuorumSizes(views) : TRUE IN
         IF SealedSizes(views) = {size} THEN Decision("SealedAgreed", size)
         ELSE IF SealedSizes(views) # {} THEN Decision("SealedDivergence", -1)
         ELSE Decision(IF Sizes(views) = {size} THEN "ReadyToSeal" ELSE "QuorumTruncate", size)

Agreed(views) ==
    EvaluatePeerAgreement(views).outcome \in {"SealedAgreed", "ReadyToSeal", "QuorumTruncate"}

\* A peer whose replica is at the agreed size; the bytes are streamed from it.
SourcePeer(views) ==
    CHOOSE p \in DOMAIN views : views[p].size = EvaluatePeerAgreement(views).size

FindBestReplicaAsFirstSealed(views) ==
    CHOOSE p \in DOMAIN views : \A q \in DOMAIN views : views[q].sealed => views[p].sealed

\* recovery.Reader.FindBestReplica: sealed before open, then the larger one.
FindBestReplica(views) ==
    CHOOSE p \in DOMAIN views :
        \A q \in DOMAIN views :
            \/ views[p].sealed /\ ~views[q].sealed
            \/ views[p].sealed = views[q].sealed /\ views[p].size >= views[q].size
=============================================================================
