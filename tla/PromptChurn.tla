---------------------------- MODULE PromptChurn ----------------------------
(***************************************************************************)
(* The churn detector (churn.py): what of a request changed since the      *)
(* session's previous one, and why the cache was lost.                     *)
(*                                                                         *)
(* A prompt is a sequence of pieces; a piece is plain text or a value one  *)
(* of the detector's patterns recognises.  Digests are collision-free, so  *)
(* a digest is the content itself, and an absent text has the digest of    *)
(* the empty one.  Confidences are in hundredths.                          *)
(***************************************************************************)
EXTENDS Integers, Sequences, FiniteSets, SequencesExt

CONSTANTS
    Absent,         \* None
    Kind,           \* Kind[p]: "plain", a pattern's name, or "marker"
    Patterns,       \* _VOLATILE_PATTERNS, in their order
    Radius          \* _PREFIX_VOLATILE_RADIUS, in pieces

ASSUME ChurnAssumption ==
    /\ Radius \in Nat /\ Patterns \in Seq(ToSet(Patterns))
    /\ "plain" \notin ToSet(Patterns) /\ "marker" \notin ToSet(Patterns)
    /\ \A p \in DOMAIN Kind : Kind[p] \in ToSet(Patterns) \cup {"plain", "marker"}

Layers == <<"system prefix", "system suffix", "tools", "history", "tail">>

-----------------------------------------------------------------------------
(* The layers of a request *)

\* The boundary of the system prompt: the first match of the first PATTERN that
\* matches at all, wherever the other patterns match.
PrefixLength(system) ==
    LET first(k) == SelectInSeq(system, LAMBDA p : Kind[p] = k)
        hit == SelectInSeq(Patterns, LAMBDA k : first(k) # 0)
    IN  IF hit = 0 THEN Len(system) ELSE first(Patterns[hit]) - 1

SplitSystem(system) ==
    LET n == PrefixLength(system)
    IN  <<SubSeq(system, 1, n), SubSeq(system, n + 1, Len(system))>>

\* What the detector compares: the text of every layer, and the identity fields.
ToHashes(c) ==
    LET n == Len(c.messages)
        text(l) == CASE l = "system prefix" -> SplitSystem(c.system)[1]
                     [] l = "system suffix" -> SplitSystem(c.system)[2]
                     [] l = "tools"         -> c.tools
                     [] l = "history"       -> SubSeq(c.messages, 1, n - 1)
                     [] l = "tail"          -> SubSeq(c.messages, Max({1, n}), n)
    IN  [texts |-> [l \in ToSet(Layers) |-> text(l)],
         system |-> c.system, tools |-> c.tools, history |-> c.messages,
         route |-> c.route, model |-> c.model, key |-> c.key]

\* A snapshot rebuilt from a stored event has the flat digests only.
StoredHashes(e) ==
    [texts |-> [l \in ToSet(Layers) |-> IF l = "tools" THEN e.tools ELSE Absent],
     system |-> e.system, tools |-> e.tools, history |-> e.history,
     route |-> e.route, model |-> e.model, key |-> Absent]

MaybeDiffers(a, b) ==
    IF a = Absent \/ b = Absent THEN "unknown" ELSE IF a # b THEN "changed" ELSE "same"

-----------------------------------------------------------------------------
(* Classification *)

FlatFields == {"system", "tools", "history", "route", "model", "key"}

Flags(a, b) ==
    [flat |-> {x \in FlatFields : a[x] # b[x]},
     layer |-> [l \in ToSet(Layers) |-> MaybeDiffers(a.texts[l], b.texts[l])]]

OnlySystemChanged(f) == f.flat = {"system"}

\* The causes in the order they are tried, each with its base confidence.
CauseTable(f, identityChanged) ==
    LET changed(l) == f.layer[l] = "changed"
        prefix == "system prefix"
        suffix == "system suffix"
    IN  << [holds |-> "route" \in f.flat, cause |-> "route", base |-> 92],
           [holds |-> "model" \in f.flat, cause |-> "model", base |-> 85],
           [holds |-> changed(suffix) /\ f.layer[prefix] = "same" /\ OnlySystemChanged(f),
            cause |-> "isolated suffix", base |-> 85],
           [holds |-> changed(suffix) /\ f.layer[prefix] = "same",
            cause |-> suffix, base |-> 85],
           [holds |-> changed(prefix), cause |-> prefix, base |-> 90],
           [holds |-> changed(suffix), cause |-> suffix, base |-> 85],
           [holds |-> changed("tools"), cause |-> "tools", base |-> 80],
           [holds |-> changed("history"), cause |-> "history", base |-> 75],
           [holds |-> changed("tail"), cause |-> "tail", base |-> 70],
           [holds |-> "system" \in f.flat, cause |-> "flat system", base |-> 65],
           [holds |-> "history" \in f.flat, cause |-> "flat history", base |-> 65],
           [holds |-> "key" \in f.flat, cause |-> "key", base |-> 70],
           [holds |-> identityChanged, cause |-> "residual", base |-> 60] >>

Confidence(base, f) ==
    LET extra == Max({0, Cardinality(f.flat) - 1})
    IN  Max({50, base - 10 * extra})

\* The first cause of the table that holds, for a pair with these flags.
PrimaryCause(f, table) ==
    LET i == SelectInSeq(table, LAMBDA c : c.holds)
    IN  IF i = 0 THEN [cause |-> "none", confidence |-> Absent]
        ELSE [cause |-> table[i].cause, confidence |-> Confidence(table[i].base, f)]

\* classify_hashes: nothing is known of where the two diverge.
ClassifyHashes(a, b, identityChanged) ==
    LET f == Flags(a, b)
        k == PrimaryCause(f, CauseTable(f, identityChanged))
    IN  [cause |-> k.cause, confidence |-> k.confidence,
         layer |-> Absent, offset |-> Absent, loss |-> Absent]

CommonLength(a, b) ==
    Cardinality({n \in 1 .. Min({Len(a), Len(b)}) : SubSeq(a, 1, n) = SubSeq(b, 1, n)})

\* The first layer, in prefix order, whose texts differ; 0 if none does.
FirstDivergence(a, b) ==
    SelectInSeq(Layers, LAMBDA l : a.texts[l] # b.texts[l])

\* The canonical serialization has its keys sorted: the messages come first.
Serialize(c) ==
    <<"cache_key", c.key, "messages">> \o c.messages
      \o <<"model", c.model, "route_hash", c.route, "system">> \o c.system
      \o <<"tools">> \o c.tools

\* The first divergent layer, how much of it is common and how much of the
\* serialized prompt is lost.
Divergence(a, b, previous, current) ==
    LET d == FirstDivergence(a, b)
    IN  [layer  |-> IF d = 0 THEN Absent ELSE Layers[d],
         offset |-> IF d = 0 THEN Absent
                    ELSE CommonLength(a.texts[Layers[d]], b.texts[Layers[d]]),
         loss   |-> Len(Serialize(previous))
                      - CommonLength(Serialize(previous), Serialize(current))]

\* A prefix-only change with a volatile-looking value near the divergence.
RefinePrefixVolatility(f, k, prefix, offset) ==
    IF /\ k.cause = "system prefix"
       /\ f.layer["system suffix"] = "same" /\ OnlySystemChanged(f)
       /\ \E i \in DOMAIN prefix :
             /\ offset - Radius < i /\ i <= offset + Radius
             /\ Kind[prefix[i]] \in {"marker", "uuid"}
    THEN [cause |-> "volatile prefix", confidence |-> Confidence(85, f)] ELSE k

Classify(previous, current, identityChanged) ==
    LET a == ToHashes(previous)
        b == ToHashes(current)
        f == Flags(a, b)
        where == Divergence(a, b, previous, current)
        k == RefinePrefixVolatility(f, PrimaryCause(f, CauseTable(f, identityChanged)),
                                    b.texts["system prefix"], where.offset)
    IN  [cause |-> k.cause, confidence |-> k.confidence,
         layer |-> where.layer, offset |-> where.offset, loss |-> where.loss]

=============================================================================
