------------------------- MODULE BackgroundTargets -------------------------
(***************************************************************************)
(* The Hermes plugin inside an agent process: which background work keeps  *)
(* a session's cache lease armed.  The tool_request middleware classifies  *)
(* a terminal call and registers a target for one it moves to the          *)
(* background, post_tool_call releases it and records the duration,        *)
(* subagent hooks register and release the agents, session hooks publish   *)
(* the session id, and llm_request, which changes nothing here, sends the  *)
(* number of the session's targets to the relay (Headers).  The settings   *)
(* are the defaults: long tasks, auto-backgrounding, learning and          *)
(* correlation headers are on.                                             *)
(*                                                                         *)
(* Hooks may fire from different threads.  Registry, identity and history  *)
(* have a lock each, so what is atomic is one locked operation.  The       *)
(* history tests its _disabled flag before it takes its lock and sets it   *)
(* after it released it: these are steps of their own.  One pair of locks  *)
(* is taken in one step: a hook that publishes or reads the session id and *)
(* moves the registry does both at once, which no other step can tell      *)
(* while the published id stays (OneSession).                              *)
(***************************************************************************)
EXTENDS CommandHistory, FiniteSets

CONSTANTS
    Sessions, NoSession,
    ProcessSession,     \* process_session_id()
    Calls,              \* terminal calls, each made at most once
    Commands,           \* the commands they may run, as token sequences
    Timeouts,           \* timeouts they may ask for
    Durations,          \* how long they may run
    Agents,             \* subagents, each started at most once
    Nameless,           \* agents whose session id is not known at their start
    OneSession,         \* does the process finish a session's work before the next?
    Concurrent,         \* may two calls of one signature be under way at once?
    MaxRestarts         \* bound on restarts of the agent process

ASSUME TargetsAssumption ==
    /\ NoSession \notin Sessions /\ ProcessSession \notin Sessions \cup {NoSession}
    /\ Timeouts \subseteq Int /\ Durations \subseteq Nat
    /\ IsFiniteSet(Calls) /\ IsFiniteSet(Agents) /\ Nameless \subseteq Agents
    /\ OneSession \in BOOLEAN /\ Concurrent \in BOOLEAN /\ MaxRestarts \in Nat

VARIABLES
    refcount,   \* BackgroundTargetRegistry._refcounts (0: absent)
    owner,      \* _targets[id].session_id (NoSession: absent)
    identity,   \* SessionIdentity._session_id
    window,     \* CommandDurationHistory._windows
    row,        \* the command_history table, which outlives the process
    disabled,   \* CommandDurationHistory._disabled
    call,       \* the terminal calls
    agent,      \* the subagents
    session,    \* the session the agent process runs
    restarts    \* restarts of the process so far

registry == <<refcount, owner>>
history == <<window, row, disabled>>
vars == <<refcount, owner, identity, window, row, disabled, call, agent,
          session, restarts>>

Signatures == {NormalizeSignature(k) : k \in Commands}

\* process_target_id and the two names a subagent may be registered under.
ProcessTarget(sig) == [kind |-> "process", id |-> sig]
AgentTarget(a) == [kind |-> "session", id |-> a]
NamelessTarget(a) == [kind |-> "subagent", id |-> a]
Targets == {ProcessTarget(sig) : sig \in Signatures}
             \cup {AgentTarget(a) : a \in Agents}
             \cup {NamelessTarget(a) : a \in Agents}

\* A call: not made, asking the history for its row, classified as long-running,
\* running, over but still to be recorded, being recorded, over, gone without a
\* post_tool_call; or its recording failed and is about to switch, or has switched,
\* the history off.  duration and epoch (history: the restarts before it) are those
\* of the sample it left in the window.
CallStates == {"idle", "asking", "chosen", "running", "ended", "recording", "over",
               "lost", "failing", "unstored"}
CallRecords == [pc: CallStates, sig: Signatures \cup {NoSignature}, promoted: BOOLEAN,
                session: Sessions \cup {NoSession}, duration: Durations \cup {-1},
                epoch: 0..MaxRestarts]
NewCall == [pc |-> "idle", sig |-> NoSignature, promoted |-> FALSE,
            session |-> NoSession, duration |-> -1, epoch |-> 0]
Over == [NewCall EXCEPT !.pc = "over"]

AgentStates == {"idle", "running", "over"}
AgentRecords == [pc: AgentStates, parent: Sessions \cup {NoSession}]
NewAgent == [pc |-> "idle", parent |-> NoSession]

Init ==
    /\ refcount = [t \in Targets |-> 0]
    /\ owner = [t \in Targets |-> NoSession]
    /\ identity = NoSession
    /\ window = [sig \in Signatures |-> <<>>]
    /\ row = [sig \in Signatures |-> NoRow]
    /\ disabled \in BOOLEAN
    /\ call = [c \in Calls |-> NewCall]
    /\ agent = [a \in Agents |-> NewAgent]
    /\ session = NoSession
    /\ restarts = 0

-----------------------------------------------------------------------------
(* Registry and identity *)

\* register: the latest registration names the session.
Register(t, s) ==
    /\ refcount' = [refcount EXCEPT ![t] = @ + 1]
    /\ owner' = [owner EXCEPT ![t] = s]

\* A release that goes below zero.
ReleaseUnclamped(t) ==
    /\ refcount' = [refcount EXCEPT ![t] = @ - 1]
    /\ owner' = [owner EXCEPT ![t] = IF refcount[t] <= 1 THEN NoSession ELSE @]

\* release: removed at zero, never negative.
Release(t) ==
    /\ refcount' = [refcount EXCEPT ![t] = Max({0, @ - 1})]
    /\ owner' = [owner EXCEPT ![t] = IF refcount[t] <= 1 THEN NoSession ELSE @]

\* The targets active_count counts for a session.
ActiveTargets(s) == {t \in Targets : refcount[t] > 0 /\ owner[t] = s}

\* SessionIdentity.current, with the per-process id as a fallback.
CurrentSession == IF identity = NoSession THEN ProcessSession ELSE identity

\* llm_request: what the headers of a request sent now say.
Headers == [session |-> CurrentSession, targets |-> ActiveTargets(CurrentSession)]

-----------------------------------------------------------------------------
(* Terminal calls *)

UnderWay(c) == call[c].pc \in {"chosen", "running"}

\* Without Concurrent the agent waits for a command before it repeats it.
MayCall(sig) == Concurrent \/ \A c \in Calls : UnderWay(c) => call[c].sig # sig

\* tool_request asks for the learned row, and the history is not off.
AskHistory(c) ==
    /\ call[c].pc = "idle" /\ session # NoSession /\ ~disabled
    /\ call' = [call EXCEPT ![c] = [NewCall EXCEPT !.pc = "asking", !.session = session]]
    /\ UNCHANGED <<registry, history, identity, agent, session, restarts>>

\* ... and goes on to the decision: the row is read under the history's lock, or the
\* read fails, which switches the history off, or there is no row to ask for; and the
\* call is classified.
ToolRequest(c, args, read) ==
    LET sig == NormalizeSignature(args.command)
        asked == call[c].pc = "asking" /\ sig # NoSignature
        long == Classify(args, IF asked /\ read THEN row[sig] ELSE NoRow)
    IN  /\ \/ call[c].pc = "asking"
           \/ call[c].pc = "idle" /\ session # NoSession /\ disabled
        /\ MayCall(sig)
        /\ call' = [call EXCEPT ![c] =
                      [NewCall EXCEPT !.pc = IF long THEN "chosen" ELSE "running",
                                      !.sig = sig, !.promoted = long,
                                      !.session = IF call[c].pc = "asking"
                                                  THEN call[c].session ELSE session]]
        /\ disabled' = IF asked /\ ~read THEN TRUE ELSE disabled
        /\ UNCHANGED <<registry, window, row, identity, agent, session, restarts>>

\* A promotion that arms nothing.
RegisterProcessNothing(c) ==
    /\ call[c].pc = "chosen"
    /\ call' = [call EXCEPT ![c].pc = "running"]
    /\ UNCHANGED <<registry, history, identity, agent, session, restarts>>

\* ... and its end: _register_process_target for the session known now.
RegisterProcess(c) ==
    /\ call[c].pc = "chosen"
    /\ Register(ProcessTarget(call[c].sig), CurrentSession)
    /\ call' = [call EXCEPT ![c].pc = "running"]
    /\ UNCHANGED <<history, identity, agent, session, restarts>>

\* post_tool_call: the session is published and the command's target released,
\* whether this call was promoted or not.
PostToolCall(c) ==
    /\ call[c].pc = "running"
    /\ identity' = call[c].session
    /\ Release(ProcessTarget(call[c].sig))
    /\ call' = [call EXCEPT ![c].pc = "ended"]
    /\ UNCHANGED <<history, agent, session, restarts>>

\* ... then record, if the payload has a duration: the history is not off and the
\* command has a signature.
CheckHistory(c) ==
    /\ call[c].pc = "ended" /\ ~disabled /\ call[c].sig # NoSignature
    /\ call' = [call EXCEPT ![c].pc = "recording"]
    /\ UNCHANGED <<registry, history, identity, agent, session, restarts>>

\* The history under its lock: the window takes the sample and the row is written.
\* It may have been switched off since.
Record(c, d) ==
    LET sig == call[c].sig
        w == Append1(window[sig], d)
    IN  /\ call[c].pc = "recording"
        /\ window' = [window EXCEPT ![sig] = w]
        /\ row' = [row EXCEPT ![sig] = Upserted(@, w)]
        /\ call' = [call EXCEPT ![c] = [Over EXCEPT !.sig = sig, !.duration = d,
                                                    !.epoch = restarts]]
        /\ UNCHANGED <<registry, disabled, identity, agent, session, restarts>>

\* The store fails: the window has the sample already, the row does not ...
RecordFails(c, d) ==
    LET sig == call[c].sig
    IN  /\ call[c].pc = "recording"
        /\ window' = [window EXCEPT ![sig] = Append1(@, d)]
        /\ call' = [call EXCEPT ![c] = [Over EXCEPT !.pc = "failing", !.sig = sig,
                                                    !.duration = d, !.epoch = restarts]]
        /\ UNCHANGED <<registry, row, disabled, identity, agent, session, restarts>>

\* ... and, the lock released, the history is off until the process restarts.
Disable(c) ==
    /\ call[c].pc = "failing"
    /\ disabled' = TRUE
    /\ call' = [call EXCEPT ![c].pc = "unstored"]
    /\ UNCHANGED <<registry, window, row, identity, agent, session, restarts>>

NotRecorded(c) ==
    /\ call[c].pc = "ended"
    /\ call' = [call EXCEPT ![c] = Over]
    /\ UNCHANGED <<registry, history, identity, agent, session, restarts>>

\* Hermes drops a call after tool_request (it is refused, or its thread dies).
CallLost(c) ==
    /\ call[c].pc = "running"
    /\ call' = [call EXCEPT ![c].pc = "lost"]
    /\ UNCHANGED <<registry, history, identity, agent, session, restarts>>

-----------------------------------------------------------------------------
(* Subagents and sessions *)

SubagentStart(a) ==
    /\ agent[a].pc = "idle" /\ session # NoSession
    /\ identity' = session
    /\ Register(IF a \in Nameless THEN NamelessTarget(a) ELSE AgentTarget(a), session)
    /\ agent' = [agent EXCEPT ![a] = [pc |-> "running", parent |-> session]]
    /\ UNCHANGED <<history, call, session, restarts>>

\* subagent_stop knows the child's session id only.
SubagentStop(a) ==
    /\ agent[a].pc = "running"
    /\ Release(AgentTarget(a))
    /\ agent' = [agent EXCEPT ![a] = [NewAgent EXCEPT !.pc = "over"]]
    /\ UNCHANGED <<history, identity, call, session, restarts>>

\* With OneSession the work of a session ends before another one begins.
MaySwitch(s) ==
    \/ ~OneSession
    \/ /\ \A c \in Calls : call[c].pc = "asking" \/ UnderWay(c) => call[c].session = s
       /\ \A a \in Agents : agent[a].pc = "running" => agent[a].parent = s

\* A reset that leaves the old id published.
SessionBeginsSilently(s) ==
    /\ session # s /\ MaySwitch(s)
    /\ session' = s
    /\ identity' = IF identity = NoSession THEN s ELSE identity
    /\ UNCHANGED <<registry, history, call, agent, restarts>>

\* on_session_start and on_session_reset.  on_session_end changes nothing.
SessionBegins(s) ==
    /\ session # s /\ MaySwitch(s)
    /\ session' = s
    /\ identity' = s
    /\ UNCHANGED <<registry, history, call, agent, restarts>>

\* The agent process dies with its work and comes back; the history opens, or not.
Restart ==
    /\ restarts < MaxRestarts
    /\ restarts' = restarts + 1
    /\ refcount' = [t \in Targets |-> 0]
    /\ owner' = [t \in Targets |-> NoSession]
    /\ identity' = NoSession /\ session' = NoSession
    /\ window' = [sig \in Signatures |-> <<>>]
    /\ disabled' \in BOOLEAN
    /\ call' = [c \in Calls |-> IF call[c].pc \in {"idle", "over"} THEN call[c]
                                ELSE Over]
    /\ agent' = [a \in Agents |-> IF agent[a].pc = "running"
                                  THEN [NewAgent EXCEPT !.pc = "over"] ELSE agent[a]]
    /\ UNCHANGED row

-----------------------------------------------------------------------------
Args == [command: Commands, background: {"unset", "true", "false"}, timeout: Timeouts]

CallStep(c) ==
    \/ AskHistory(c) \/ \E args \in Args, read \in BOOLEAN : ToolRequest(c, args, read)
    \/ RegisterProcess(c) \/ PostToolCall(c) \/ CallLost(c)
    \/ CheckHistory(c) \/ NotRecorded(c) \/ Disable(c)
    \/ \E d \in Durations : Record(c, d) \/ RecordFails(c, d)

Next ==
    \/ \E c \in Calls : CallStep(c)
    \/ \E a \in Agents : SubagentStart(a) \/ SubagentStop(a)
    \/ \E s \in Sessions : SessionBegins(s)
    \/ Restart

Spec == Init /\ [][Next]_vars

-----------------------------------------------------------------------------
(* Properties *)

\* Every variable keeps its type; windows stay within their bound.
TypeOK ==
    /\ refcount \in [Targets -> Nat]
    /\ owner \in [Targets -> Sessions \cup {NoSession, ProcessSession}]
    /\ identity \in Sessions \cup {NoSession} /\ session \in Sessions \cup {NoSession}
    /\ \A sig \in Signatures : Len(window[sig]) <= WindowSize
    /\ row \in [Signatures -> [count: Nat, p90: Nat]]
    /\ disabled \in BOOLEAN /\ restarts \in 0..MaxRestarts
    /\ call \in [Calls -> CallRecords]
    /\ agent \in [Agents -> AgentRecords]

\* The target an agent is registered under.
TargetOf(a) == IF a \in Nameless THEN NamelessTarget(a) ELSE AgentTarget(a)

\* The work under way that t stands for, and the work whose end nobody reports.
Work(t) == {c \in Calls : /\ call[c].pc = "running" /\ call[c].promoted
                          /\ t = ProcessTarget(call[c].sig)}
             \cup {a \in Agents : agent[a].pc = "running" /\ t = TargetOf(a)}
Leaks(t) == {c \in Calls : /\ call[c].pc = "lost" /\ call[c].promoted
                           /\ t = ProcessTarget(call[c].sig)}
              \cup {a \in Nameless : agent[a].pc = "over" /\ t = NamelessTarget(a)}

\* The registry counts the work in progress: no target is gone before its work is,
\* and none is left but by work whose end was never reported ("balanced by the
\* registry's refcount", targets.py:41-42).
RefcountsExact ==
    \A t \in Targets :
        /\ Cardinality(Work(t)) <= refcount[t]
        /\ refcount[t] <= Cardinality(Work(t)) + Cardinality(Leaks(t))

\* A request carries the id of the session that sends it, and counts that
\* session's own work and nothing else but leaked targets: what the relay arms and
\* disarms leases by (llm_middleware.py:121-125).
HeadersTellWork ==
    session # NoSession =>
        LET work == {t \in Targets :
                        \/ \E c \in Calls \cap Work(t) : call[c].session = session
                        \/ \E a \in Agents \cap Work(t) : agent[a].parent = session}
        IN  /\ Headers.session = session
            /\ work \subseteq Headers.targets
            /\ \A t \in Headers.targets \ work : Leaks(t) # {}

\* The calls of a signature that were recorded, ever and by this process, and those
\* of this process whose durations went into the window.
Recorded(sig) == {c \in Calls : /\ call[c].pc = "over" /\ call[c].duration # -1
                                /\ call[c].sig = sig}
RecordedNow(sig) == {c \in Recorded(sig) : call[c].epoch = restarts}
Sampled(sig) == {c \in Calls : /\ call[c].duration # -1 /\ call[c].sig = sig
                               /\ call[c].epoch = restarts}

\* The row counts every recorded run across restarts, and its p90 has at most a
\* tenth of a window of observed runs above it and nine tenths below: the learned
\* promotion (classifier.py:104-109) rests on what was really observed.  The window
\* is full, or holds every recorded run of this process; runs that could not be
\* stored may be in it, while other threads still record.
RowSummarisesRuns ==
    \A sig \in Signatures :
        /\ row[sig].count = Cardinality(Recorded(sig))
        /\ RecordedNow(sig) # {} =>
             \E S \in SUBSET Sampled(sig) :
                LET n == Cardinality(S)
                    above == {c \in S : 10 * call[c].duration > row[sig].p90}
                    below == {c \in S : 10 * call[c].duration < row[sig].p90}
                IN  /\ n <= WindowSize
                    /\ n >= Min({WindowSize, Cardinality(RecordedNow(sig))})
                    /\ 10 * Cardinality(above) <= n + 8
                    /\ 10 * Cardinality(below) <= 9 * (n - 1) + 10

=============================================================================
