----------------------------- MODULE Compaction -----------------------------
(***************************************************************************)
(* Deterministic compaction of a worker's conversation (src/deterministic- *)
(* compaction.mjs): the span of messages a session is about to forget is   *)
(* rewritten as one summary that begins with the approved packet, carries  *)
(* the previous summary's messages on, and holds every message of the span *)
(* either whole or, for the output of a read or of a run of the checks     *)
(* that can be repeated, as a marker that names the call to repeat.        *)
(*                                                                         *)
(* A message is [id, role, calls, answers, tool, body, bytes]; its calls   *)
(* are [id, name, target].  A digest is the thing digested.                *)
(***************************************************************************)
EXTENDS Naturals, Sequences, FiniteSets, Functions

Nil == "none"
Roles == {"system", "user", "assistant", "toolResult", "custom", "bashExecution", "branchSummary", "compactionSummary"}
Elidable == {"read", "run_checks"}

(* run_checks without a check names all of them; a read names its file.    *)
TargetOf(call) == IF call.name = "run_checks" /\ call.target = Nil THEN "all" ELSE call.target

Describable(call) == call.name \in Elidable /\ call.id # Nil /\ TargetOf(call) # Nil

(* toolDescriptor: what the marker of a call's output says.                *)
Descriptor(call) == [tool |-> call.name, target |-> TargetOf(call)]

(* The calls of a span that bear an identifier, by position.               *)
CallsOf(span, id) ==
    {at \in UNION {{i} \X DOMAIN span[i].calls : i \in {j \in DOMAIN span : span[j].role = "assistant"}} :
        LET call == span[at[1]].calls[at[2]] IN call.id = id /\ call.id # Nil /\ call.name # Nil}

ResultsOf(span, id) == {i \in DOMAIN span : span[i].role = "toolResult" /\ span[i].answers = id}

(* The call whose output message i holds, when nothing else of the span    *)
(* claims the same identifier and the call comes first.                    *)
PairedCall(span, i) ==
    {at \in CallsOf(span, span[i].answers) :
        LET call == span[at[1]].calls[at[2]] IN
        /\ span[i].role = "toolResult"
        /\ Describable(call)
        /\ call.name = span[i].tool
        /\ CallsOf(span, call.id) = {at}
        /\ ResultsOf(span, call.id) = {i}
        /\ at[1] < i}

NoCall == [tool |-> Nil, target |-> Nil]

(* compactMessage: what stands for an elided result names the call to      *)
(* repeat and binds the digest of the content, its details go with it.     *)
Kept(message) == [of |-> message.id, digest |-> message.body, shows |-> message.body,
                  replay |-> NoCall, bytes |-> message.bytes]
Marker(message, call) == [of |-> message.id, digest |-> message.body, shows |-> Nil,
                          replay |-> Descriptor(call), bytes |-> 1]

ItemOf(span, i) ==
    LET paired == PairedCall(span, i) IN
    IF paired = {} THEN Kept(span[i])
    ELSE LET at == CHOOSE at \in paired : TRUE IN Marker(span[i], span[at[1]].calls[at[2]])

Items(span) == [i \in DOMAIN span |-> ItemOf(span, i)]

Bytes(items) == FoldFunction(LAMBDA item, sum : item.bytes + sum, 0, items)
InputBytes(span) == FoldFunction(LAMBDA message, sum : message.bytes + sum, 0, span)

Omitted(items) == {i \in DOMAIN items : items[i].replay # NoCall}

(* A summary is foreign text, or one of compaction's own: the length-framed*)
(* packet, which is whole or cut, and the items of its message section. The*)
(* details beside it list the omissions of the compaction that wrote it.   *)
Foreign(text) == [own |-> FALSE, text |-> text, items |-> <<>>, bytes |-> 1, details |-> 0, whole |-> TRUE]
Own(anchor, items, omissions) ==
    [own |-> TRUE, text |-> anchor.text, items |-> items, bytes |-> anchor.bytes + Bytes(items),
     details |-> omissions, whole |-> TRUE]
NoSummary == [Foreign(Nil) EXCEPT !.bytes = 0]

(* parseSummaryFrame and the digests of previousSummaryItems.              *)
Readable(summary) == summary.own => summary.whole /\ summary.items # <<>>

(* previousSummaryItems: foreign text is one message of its own.           *)
PreviousItems(previous) ==
    IF previous = NoSummary THEN <<>>
    ELSE IF previous.own THEN previous.items
    ELSE <<Kept([id |-> "previous", body |-> previous.text, bytes |-> 1])>>

NoAnchor == [text |-> Nil, digest |-> Nil, bytes |-> 0]

(* normalizeAnchor: the packet the host supplies, its digest when given.   *)
AnchorRefusal(anchor, limits) ==
    IF anchor = NoAnchor THEN "PACKET_ANCHOR_MISSING"
    ELSE IF anchor.bytes > limits.packet THEN "PACKET_ANCHOR_OVERSIZE"
    ELSE IF anchor.digest \notin {Nil, anchor.text} THEN "PACKET_ANCHOR_DIGEST_MISMATCH"
    ELSE Nil

(* loadCompactionAnchorSync: the file the worker staged read-only, bounded *)
(* before it is read and held to the byte count it states.                 *)
LoadedAnchor(file, limits) ==
    IF file.kind = "file" /\ file.bytes <= 2 * limits.packet /\ file.whole
         /\ file.states = file.anchor.bytes /\ AnchorRefusal(file.anchor, limits) = Nil
      THEN file.anchor
      ELSE NoAnchor

(* What keeps a span from being compacted, in the order it is looked at: a *)
(* summary may be written larger than the next compaction accepts it.      *)
InputRefusal(span, previous, limits) ==
    IF span = <<>> THEN "COMPACTION_EMPTY"
    ELSE IF Len(span) > limits.messages THEN "COMPACTION_INPUT_OVERSIZE"
    ELSE IF \E i \in DOMAIN span : span[i].role \notin Roles THEN "COMPACTION_INPUT_INVALID"
    ELSE IF InputBytes(span) > limits.input THEN "COMPACTION_INPUT_OVERSIZE"
    ELSE IF previous.bytes > limits.previousSummary THEN "PREVIOUS_SUMMARY_OVERSIZE"
    ELSE IF previous.details > limits.previousDetails THEN "PREVIOUS_DETAILS_OVERSIZE"
    ELSE IF ~Readable(previous) THEN "PREVIOUS_SUMMARY_INVALID"
    ELSE Nil

Refusal(reason) == [cancel |-> TRUE, reason |-> reason]

(* buildSummary: packet first, the previous items, then the span's own.    *)
Summary(anchor, previous, span) ==
    Own(anchor, PreviousItems(previous) \o Items(span), Cardinality(Omitted(Items(span))))

(* compactDeterministically: a refusal leaves the conversation as it was.  *)
Compact(history, prefix, previous, anchor, limits, aborted) ==
    LET span == history \o prefix
        summary == Summary(anchor, previous, span)
    IN  IF aborted THEN Refusal("COMPACTION_ABORTED")
        ELSE IF AnchorRefusal(anchor, limits) # Nil THEN Refusal(AnchorRefusal(anchor, limits))
        ELSE IF InputRefusal(span, previous, limits) # Nil THEN Refusal(InputRefusal(span, previous, limits))
        ELSE IF summary.bytes > limits.summary THEN Refusal("COMPACTION_SUMMARY_OVERSIZE")
        ELSE IF summary.details > limits.details THEN Refusal("COMPACTION_DETAILS_OVERSIZE")
        ELSE [cancel |-> FALSE, summary |-> summary, omitted |-> Omitted(Items(span))]

(* extractApprovedPacket: the packet a summary's frame holds.              *)
ApprovedPacket(summary) == summary.text

(* registerCompactionExtension: the session's hook compacts the messages   *)
(* before the cut, the last of them the beginning of a split turn, with the*)
(* anchor it captured at the start; a refusal leaves the session as it is. *)
BeforeCompact(session, turn, cut, anchor, limits, aborted) ==
    LET outcome == Compact(SubSeq(session.messages, 1, turn), SubSeq(session.messages, turn + 1, cut),
                           session.summary, anchor, limits, aborted)
    IN  IF outcome.cancel
          THEN [session EXCEPT !.refusals = Append(@, outcome.reason)]
          ELSE [session EXCEPT !.messages = SubSeq(@, cut + 1, Len(@)), !.summary = outcome.summary]

-----------------------------------------------------------------------------
(* What compaction promises.                                               *)

(* An output is dropped only when one call of the conversation can have    *)
(* asked for it and the marker names that call (deterministic-compaction.  *)
(* mjs:443-448): a second call or a second result under its identifier, or *)
(* one that comes before the call, keeps the output whole.                 *)
ElidedOnlyIfRepeatable(span) ==
    \A i \in Omitted(Items(span)) :
        \E asked \in 1..(i - 1) : \E k \in DOMAIN span[asked].calls :
            LET call == span[asked].calls[k] IN
            /\ call.id = span[i].answers /\ call.name = span[i].tool /\ call.name \in {"read", "run_checks"}
            /\ Items(span)[i].replay.target \in {call.target, "all"} \ {Nil}
            /\ \A j \in DOMAIN span : \A l \in DOMAIN span[j].calls :
                  span[j].role = "assistant" /\ span[j].calls[l].name # Nil /\ span[j].calls[l].id = call.id
                    => j = asked /\ l = k
            /\ \A j \in DOMAIN span \ {i} : span[j].role = "toolResult" => span[j].answers # call.id

(* Every message of the span is in the summary, in its order, with the     *)
(* digest of what it said, and what is not elided is there whole.          *)
NothingForgotten(span) ==
    /\ [i \in DOMAIN span |-> Items(span)[i].of] = [i \in DOMAIN span |-> span[i].id]
    /\ \A i \in DOMAIN span : Items(span)[i].digest = span[i].body
    /\ \A i \in DOMAIN span \ Omitted(Items(span)) : Items(span)[i].shows = span[i].body

(* The messages a session shows: those its summary carries, then its own.  *)
MessagesShown(session) ==
    [i \in DOMAIN PreviousItems(session.summary) |-> PreviousItems(session.summary)[i].of]
      \o [i \in DOMAIN session.messages |-> session.messages[i].id]
=============================================================================
