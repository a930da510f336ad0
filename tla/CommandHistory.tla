--------------------------- MODULE CommandHistory ---------------------------
(***************************************************************************)
(* Terminal commands as the plugin sees them: the signature that stands    *)
(* for a command (duration_history.normalize_signature), the statistics    *)
(* kept of its durations, and the classifier's decision to move a call to  *)
(* the background.  A command is a sequence of tokens; what the rules tell *)
(* apart is whether a token is a word, a flag (its value is dropped), the  *)
(* stdin marker or a shell operator, and which word it is.  Durations are  *)
(* whole seconds.  Success rates are stored and never read, so they are    *)
(* left out.                                                               *)
(***************************************************************************)
EXTENDS Integers, Sequences, SequencesExt

CONSTANTS
    SafeWords,          \* SAFE_SUBCOMMAND_WORDS
    FastFamilies,       \* known_foreground_commands: sets of word sequences
    LongFamilies,       \* known_long_commands
    Threshold,          \* timeout_threshold_s
    HardPolicy,         \* enforce_foreground_hard_policy
    WindowSize          \* samples in a rolling window

ASSUME HistoryAssumption ==
    /\ Threshold \in Nat /\ HardPolicy \in BOOLEAN /\ WindowSize \in Nat \ {0}

Word(w) == [kind |-> "word", name |-> w]
Flag(w) == [kind |-> "flag", name |-> w]
Dash == [kind |-> "dash", name |-> "-"]
Operator == [kind |-> "operator", name |-> "|"]

\* The tokens before the first shell operator or "--".
Signed(tokens) ==
    LET stops == {i \in 1..Len(tokens) : tokens[i].kind = "operator"}
    IN  IF stops = {} THEN tokens ELSE SubSeq(tokens, 1, Min(stops) - 1)

\* normalize_signature: the executable, at most two recognised words after it
\* and the names of the flags; positional values and flag values are dropped.
NormalizeSignature(tokens) ==
    LET words  == SelectSeq(Signed(tokens), LAMBDA t : t.kind = "word")
        safe   == SelectSeq(Tail(words), LAMBDA t : t.name \in SafeWords)
        family == IF words = <<>> THEN <<>>
                  ELSE <<Head(words)>> \o SubSeq(safe, 1, Min({2, Len(safe)}))
    IN  [family |-> family,
         flags |-> IF words = <<>> THEN {}
                   ELSE {t.name : t \in {u \in Range(Signed(tokens)) : u.kind = "flag"}}]

\* The signature of a command of which nothing persistable remains.
NoSignature == [family |-> <<>>, flags |-> {}]

\* sorted(samples)[k]: the least sample that has more than k samples up to it.
Ordered(samples, k) ==
    Min({x \in Range(samples) :
            Cardinality({i \in DOMAIN samples : samples[i] <= x}) > k})

\* percentile at 0.9 over the sorted samples, times ten: linear interpolation
\* between the two order statistics around rank 0.9 * (n - 1).
P90(samples) ==
    LET n     == Len(samples)
        rank  == 9 * (n - 1)
        lower == rank \div 10
        upper == Min({lower + 1, n - 1})
        low   == Ordered(samples, lower)
        high  == Ordered(samples, upper)
    IN  10 * low + (rank % 10) * (high - low)

\* deque(maxlen=WINDOW_SIZE).append.
Append1(window, d) ==
    LET all == Append(window, d)
    IN  SubSeq(all, Max({1, Len(all) - WindowSize + 1}), Len(all))

NoRow == [count |-> 0, p90 |-> 0]

\* The sample count restarts with the window.
UpsertedFresh(row, window) == [count |-> Len(window), p90 |-> P90(window)]
\* record: the count of the row goes on, the percentiles are the window's.
Upserted(row, window) == [count |-> row.count + 1, p90 |-> P90(window)]

\* The samples the learned rule wants.
MinLearnedSamples == 2

Learned(row) == row.count >= MinLearnedSamples /\ row.p90 >= 10 * Threshold

\* _matches_any_family: the command's first tokens are those of the family.
MatchesFamily(tokens, families) ==
    \E f \in families :
        /\ Len(f) <= Len(tokens)
        /\ \A i \in 1..Len(f) : tokens[i] = Word(f[i])

\* classify: is the call long-running?  args.background is "true", "false" or
\* "unset", args.timeout is negative when no timeout is requested.
Classify(args, row) ==
    /\ args.command # <<>>
    /\ \/ args.background = "true"
       \/ /\ args.background = "unset" \/ HardPolicy
          /\ \/ args.timeout >= Threshold
             \/ Learned(row)
             \/ /\ ~MatchesFamily(args.command, FastFamilies)
                /\ MatchesFamily(args.command, LongFamilies)

=============================================================================
