---------------------------- MODULE MCCompaction ----------------------------
(***************************************************************************)
(* What compaction promises, checked on every short conversation over two  *)
(* call identifiers, with calls and results that may claim the same one.   *)
(***************************************************************************)
EXTENDS Compaction

CompactionCalls ==
    {[id |-> "c1", name |-> "read", target |-> "f"], [id |-> "c1", name |-> "run_checks", target |-> Nil],
     [id |-> "c2", name |-> "read", target |-> Nil], [id |-> "c2", name |-> "edit", target |-> "f"]}

SomeMessages ==
    LET said(role, calls, answers, tool, body) ==
            [role |-> role, calls |-> calls, answers |-> answers, tool |-> tool, body |-> body, bytes |-> 2]
        first == [id |-> "c1", name |-> "read", target |-> "f"]
    IN  {said("user", <<>>, Nil, Nil, "please")}
        \cup {said("assistant", <<call>>, Nil, Nil, "call") : call \in CompactionCalls}
        \cup {said("assistant", <<first, call>>, Nil, Nil, "call") : call \in CompactionCalls}
        \cup {said("toolResult", <<>>, id, tool, "output") :
                id \in {"c1", "c2", Nil}, tool \in {"read", "run_checks", "edit"}}

Numbered(span) ==
    [i \in DOMAIN span |-> [id |-> i, role |-> span[i].role, calls |-> span[i].calls, answers |-> span[i].answers,
                            tool |-> span[i].tool, body |-> span[i].body, bytes |-> span[i].bytes]]

SpansOf(n) == {Numbered(span) : span \in [1..n -> SomeMessages]}

ASSUME CompactionKeepsTheSpan ==
    \A span \in SpansOf(2) \cup SpansOf(3) : ElidedOnlyIfRepeatable(span) /\ NothingForgotten(span)

Anchors == {NoAnchor, [text |-> "packet", digest |-> "packet", bytes |-> 1], [text |-> "packet", digest |-> "other", bytes |-> 1],
            [text |-> "packet", digest |-> Nil, bytes |-> 3]}
(* The staged file of an anchor: it may be no regular file, too large, cut *)
(* or state another length than its packet's.                              *)
StagedAnchors ==
    {[kind |-> k, bytes |-> n, whole |-> w, states |-> s, anchor |-> a] :
        k \in {"file", "link"}, n \in {2, 5}, w \in BOOLEAN, s \in {1, 3}, a \in Anchors}
CompactionLimits == {[messages |-> m, packet |-> 2, input |-> 6, summary |-> s, details |-> d,
                      previousSummary |-> p, previousDetails |-> q] :
                        m \in {2, 3}, s \in {4, 9}, d \in {0, 2}, p \in {2, 9}, q \in {0, 2}}
Packet == [text |-> "packet", digest |-> Nil, bytes |-> 1]
Earlier == {NoSummary, Foreign("notes"), Own(Packet, Items(<<>>), 0)}

(* A conversation compacted twice, with any refusal in between, still shows *)
(* every message once, in order, behind the packet the host anchored.      *)
ASSUME CompactionCarriesOn ==
    \A span \in {Numbered(s) : s \in [1..3 -> {m \in SomeMessages : m.answers # Nil \/ m.calls # <<>>}]},
       limits \in CompactionLimits, cut \in 1..2, aborted \in BOOLEAN :
      \A anchor \in {LoadedAnchor(file, limits) : file \in StagedAnchors} \cup Anchors :
        LET before == [messages |-> span, summary |-> NoSummary, refusals |-> <<>>]
            once == BeforeCompact(before, 0, cut, anchor, limits, aborted)
            twice == BeforeCompact(once, 1, Len(once.messages), anchor, limits, FALSE)
        IN  \A session \in {once, twice} :
                /\ MessagesShown(session) = <<1, 2, 3>>
                /\ session.summary # NoSummary => ApprovedPacket(session.summary) = "packet" /\ anchor.digest = "packet"
                /\ session.summary = NoSummary => session.messages = span

(* A summary of another kind is carried as one message; one of compaction's *)
(* own that was cut or holds no message refuses the next compaction, and so*)
(* does one that is larger than the next compaction accepts.               *)
ASSUME CompactionReadsEarlierSummaries ==
    \A previous \in Earlier \cup {[Own(Packet, Items(s), n) EXCEPT !.whole = w] :
                                      s \in SpansOf(1), n \in 0..1, w \in BOOLEAN},
       accepted \in {2, 9}, listed \in 0..1 :
        LET span == Numbered(<<CHOOSE m \in SomeMessages : m.role = "user">>)
            limits == [messages |-> 3, packet |-> 2, input |-> 6, summary |-> 9, details |-> 2,
                       previousSummary |-> accepted, previousDetails |-> listed]
            outcome == Compact(span, <<>>, previous, Packet, limits, FALSE)
        IN  IF previous.bytes > accepted THEN outcome.reason = "PREVIOUS_SUMMARY_OVERSIZE"
            ELSE IF previous.details > listed THEN outcome.reason = "PREVIOUS_DETAILS_OVERSIZE"
            ELSE IF previous.own /\ (~previous.whole \/ previous.items = <<>>) THEN outcome.reason = "PREVIOUS_SUMMARY_INVALID"
            ELSE SubSeq(outcome.summary.items, 1, Len(outcome.summary.items) - 1) = PreviousItems(previous)
=============================================================================
