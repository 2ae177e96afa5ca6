------------------------- MODULE ToolSessionProofs -------------------------
(***************************************************************************)
(* Tool sessions, for any number of sessions, any budgets, profiles and    *)
(* calls, and any number of appends and tools that raise.                  *)
(*                                                                         *)
(* A round is checked before a call and taken after it, by way of one of   *)
(* several exits; and an append that raises at the exit takes another,     *)
(* whether its event is in the log or not.                                 *)
(* The invariant says where a session may be with which count.             *)
(*                                                                         *)
(* Then the script that drives sessions: it takes steps of sessions only,  *)
(* and its verdict is right.                                               *)
(***************************************************************************)
EXTENDS ToolLoop, TLAPS

Object == [at : Phase, status : Status, rounds : Nat, calls : Nat, begun : Nat,
           call : Calls, outcome : Outcome, seen : Contents, todo : SUBSET Path,
           id : [Path -> Contents], shaken : BOOLEAN]

InCall == {"request", "refuse", "allow", "run", "deny", "write", "fill", "seal", "copy", "record",
           "register"}
Done   == {"seal", "copy", "record", "register"}  \* the tool has taken effect, its round is not taken

\* One session: its object, its events, whether its time is over, effects, reports that raised.
Counts(t, l, un) ==
    /\ t.calls <= l["tool_call_completed"] /\ l["tool_call_completed"] <= t.calls + un
    /\ t.rounds = IF t.at = "report" THEN t.calls + un + 1 ELSE t.calls + un

WithinBudget(s, t, l, ex) ==
    /\ t.rounds <= Budget[s] + 1 /\ ex <= Budget[s]
    /\ t.at \in InCall => t.rounds < Budget[s]
    /\ t.at = "report" /\ t.outcome = "success" => t.rounds <= Budget[s]
    /\ ex <= IF t.at \in Done THEN t.rounds + 1 ELSE t.rounds
    /\ IF t.at \in {"run", "write", "fill"} THEN ex < l["tool_call_allowed"] ELSE ex <= l["tool_call_allowed"]

EndsRight(s, t, l, x) ==
    /\ l["tool_session_completed"] <= 1
    /\ t.status \in {"none", "active"} \/ t.at = "end" => l["tool_session_completed"] = 0
    /\ t.at = "end" => t.status \notin {"none", "active"}
    /\ t.status \in {"timeout", "max_rounds_exceeded"} => t.at \notin InCall
    /\ t.status = "timeout" => x
    /\ t.status = "max_rounds_exceeded" => Budget[s] <= t.rounds

Good(s, t, l, x, ex, un) == Counts(t, l, un) /\ WithinBudget(s, t, l, ex) /\ EndsRight(s, t, l, x)

SessionsGood == \A s \in Session : Good(s, sess[s], log[s], expired[s], executed[s], botched[s])

ToolInv == TypeOK /\ SessionsGood
-----------------------------------------------------------------------------
\* What the updates of a session object leave of it.
LEMMA AtFact ==
    ASSUME NEW t \in Object, NEW a \in Phase
    PROVE  LET u == [t EXCEPT !.at = a] IN
           /\ u \in Object /\ u.at = a /\ u.status = t.status /\ u.rounds = t.rounds /\ u.calls = t.calls
           /\ u.outcome = t.outcome
BY DEF Object

LEMMA LeaveFact ==
    ASSUME NEW t \in Object, NEW o \in Outcome
    PROVE  /\ Leave(t, o) \in Object
           /\ Leave(t, o).at = "idle" /\ Leave(t, o).status = t.status /\ Leave(t, o).rounds = t.rounds
           /\ Leave(t, o).calls = t.calls /\ Leave(t, o).outcome = o
<1>1. NoCall \in Calls
  BY ToolAssumption DEF NoCall
<1>2. Workspace \in [Path -> Contents] /\ {} \in Contents
  <2> DEFINE passages == UNION {Workspace[p] : p \in Path}
             others == {c.old : c \in Calls} \cup {c.new : c \in Calls}
  <2>1. Workspace \in [Path -> SUBSET passages]
    BY ToolAssumption
  <2>2. Contents = SUBSET (others \cup passages)
    BY DEF Contents
  <2> HIDE DEF passages, others
  <2> QED  BY <2>1, <2>2
<1>3. Fresh \in Object
  BY <1>1, <1>2 DEF Fresh, Object, Phase, Status, Outcome
<1> QED  BY <1>3 DEF Leave, Fresh, Object, Phase

LEMMA ReportFact ==
    ASSUME NEW t \in Object, NEW o \in Outcome
    PROVE  /\ Report(t, o) \in Object
           /\ Report(t, o).at = "report" /\ Report(t, o).status = t.status
           /\ Report(t, o).rounds = t.rounds + 1
           /\ Report(t, o).calls = t.calls /\ Report(t, o).outcome = o
<1>1. t.rounds + 1 \in Nat /\ "report" \in Phase
  BY DEF Object, Phase
<1> DEFINE n == t.rounds + 1
<1>2. Report(t, o) = [t EXCEPT !.at = "report", !.outcome = o, !.rounds = n]
  BY DEF Report
<1>3. n \in Nat
  BY <1>1
<1> HIDE DEF n
<1>4. /\ Report(t, o) \in Object
      /\ Report(t, o).at = "report" /\ Report(t, o).status = t.status /\ Report(t, o).rounds = n
      /\ Report(t, o).calls = t.calls /\ Report(t, o).outcome = o
  BY <1>1, <1>2, <1>3 DEF Object
<1> QED  BY <1>4 DEF n

LEMMA EndFact ==
    ASSUME NEW t \in Object, NEW st \in Status
    PROVE  /\ End(t, st) \in Object
           /\ End(t, st).rounds = t.rounds /\ End(t, st).calls = t.calls /\ End(t, st).outcome = t.outcome
           /\ IF t.status = "active" THEN End(t, st).at = "end" /\ End(t, st).status = st
              ELSE End(t, st).at = "idle" /\ End(t, st).status = t.status
<1>1. CASE t.status = "active"
  BY <1>1 DEF End, Object, Phase
<1>2. CASE t.status # "active"
  <2>1. t.outcome \in Outcome
    BY DEF Object
  <2> QED  BY <1>2, <2>1, LeaveFact DEF End
<1> QED  BY <1>1, <1>2

\* What the rest of the objects' fields makes no difference to.
Alike(t, u) == /\ u.at = t.at /\ u.status = t.status /\ u.rounds = t.rounds /\ u.calls = t.calls
               /\ u.outcome = t.outcome

LEMMA AlikeFact ==
    ASSUME NEW s \in Session, NEW t, NEW u, NEW l, NEW x, NEW ex, NEW un,
           Alike(t, u), Good(s, t, l, x, ex, un)
    PROVE  Good(s, u, l, x, ex, un)
BY DEF Alike, Good, Counts, WithinBudget, EndsRight

\* The invariant is one of each session.
LEMMA OneSession ==
    ASSUME SessionsGood, NEW s \in Session,
           Good(s, sess'[s], log'[s], expired'[s], executed'[s], botched'[s]),
           \A x \in Session \ {s} : /\ Alike(sess[x], sess'[x]) /\ log'[x] = log[x]
                                    /\ expired'[x] = expired[x] /\ executed'[x] = executed[x]
                                    /\ botched'[x] = botched[x]
    PROVE  SessionsGood'
<1> SUFFICES ASSUME NEW x \in Session \ {s}
             PROVE  Good(x, sess'[x], log'[x], expired'[x], executed'[x], botched'[x])
  BY DEF SessionsGood
<1>1. Good(x, sess[x], log[x], expired[x], executed[x], botched[x])
  BY DEF SessionsGood
<1> QED  BY <1>1, AlikeFact

CountedIn(l, event) == IF event \in Event THEN [l EXCEPT ![event] = @ + 1] ELSE l

\* Emit(): if all outcomes of an append are good for the session, all is good.
LEMMA EmitKeepsInv ==
    ASSUME ToolInv, NEW s \in Session, NEW event, NEW next \in Object, NEW raised \in Object,
           Emit(s, event, next, raised),
           Good(s, next, CountedIn(log[s], event), expired[s], executed[s], botched[s]),
           Good(s, raised, log[s], expired[s], executed[s], botched[s]),
           Good(s, raised, CountedIn(log[s], event), expired[s], executed[s], botched[s])
    PROVE  ToolInv'
<1>1. /\ sess \in [Session -> Object] /\ log \in [Session -> [Event -> Nat]] /\ faults \in 0..MaxFaults
      /\ MaxFaults \in Nat
  BY ToolAssumption DEF ToolInv, TypeOK, Object
<1> DEFINE l == CountedIn(log[s], event)
<1>2. Counted(s, event) = [log EXCEPT ![s] = l]
  BY <1>1 DEF Counted, CountedIn
<1>3. l \in [Event -> Nat]
  BY <1>1 DEF CountedIn
<1> HIDE DEF l
<1>4. /\ UNCHANGED <<expired, file, stored, patched, spoiled, executed, botched>>
      /\ \/ sess' = [sess EXCEPT ![s] = next] /\ faults' = faults /\ log' = [log EXCEPT ![s] = l]
         \/ /\ sess' = [sess EXCEPT ![s] = raised] /\ faults' = faults + 1 /\ faults < MaxFaults
            /\ log' = log \/ log' = [log EXCEPT ![s] = l]
  <2>1. /\ UNCHANGED <<expired, file, stored, patched, spoiled, executed, botched>>
        /\ \/ sess' = [sess EXCEPT ![s] = next] /\ faults' = faults /\ log' = Counted(s, event)
           \/ /\ sess' = [sess EXCEPT ![s] = raised] /\ faults' = faults + 1 /\ faults < MaxFaults
              /\ log' \in {log, Counted(s, event)}
    BY DEF Emit, Logged, Raises, Fault, Do, files
  <2> QED  BY <1>2, <2>1
<1>5. TypeOK'
  <2>1. sess' \in [Session -> Object]
    BY <1>1, <1>4
  <2>2. log' \in [Session -> [Event -> Nat]]
    BY <1>1, <1>3, <1>4
  <2>3. faults' \in 0..MaxFaults
    BY <1>1, <1>4
  <2> QED  BY <2>1, <2>2, <2>3, <1>4 DEF ToolInv, TypeOK, Object
<1>6. SessionsGood'
  <2>1. \/ sess'[s] = next /\ log'[s] = l
        \/ sess'[s] = raised /\ (log'[s] = log[s] \/ log'[s] = l)
    BY <1>1, <1>4
  <2>2. \A x \in Session \ {s} : sess'[x] = sess[x] /\ log'[x] = log[x]
    BY <1>1, <1>4
  <2>3. Good(s, sess'[s], log'[s], expired[s], executed[s], botched[s])
    BY <2>1 DEF l
  <2> QED  BY <2>2, <2>3, <1>4, OneSession DEF ToolInv, Alike
<1> QED  BY <1>5, <1>6 DEF ToolInv

\* A session's own values.
LEMMA SessionFact ==
    ASSUME ToolInv, NEW s \in Session
    PROVE  /\ sess[s] \in Object /\ Budget[s] \in Nat
           /\ sess[s].rounds \in Nat /\ sess[s].calls \in Nat /\ executed[s] \in Nat /\ botched[s] \in Nat
           /\ sess[s].outcome \in Outcome /\ sess[s].at \in Phase /\ sess[s].call \in Calls
           /\ log[s] \in [Event -> Nat] /\ expired[s] \in BOOLEAN
           /\ \A e \in Event : log[s][e] \in Nat
           /\ Good(s, sess[s], log[s], expired[s], executed[s], botched[s])
<1>1. sess[s] \in Object
  BY DEF ToolInv, TypeOK, Object
<1>2. /\ sess[s].rounds \in Nat /\ sess[s].calls \in Nat /\ sess[s].call \in Calls
      /\ sess[s].outcome \in Outcome /\ sess[s].at \in Phase
  BY <1>1 DEF Object
<1> QED  BY <1>1, <1>2, ToolAssumption DEF ToolInv, TypeOK, SessionsGood

\* The events before the call, and the one of a session that ends.
LEMMA StartKeepsInv ==
    ASSUME ToolInv, NEW s \in Session, StartSession(s)
    PROVE  ToolInv'
<1> DEFINE t == sess[s]
           u == [t EXCEPT !.status = "active"]
           l == CountedIn(log[s], "tool_session_started")
<1>1. /\ t \in Object /\ t.status = "none" /\ Good(s, t, log[s], expired[s], executed[s], botched[s])
  BY SessionFact DEF StartSession
<1>2. /\ u \in Object /\ u.at = t.at /\ u.status = "active" /\ u.rounds = t.rounds /\ u.calls = t.calls
      /\ u.outcome = t.outcome
  BY <1>1 DEF Object, Status
<1>3. l = log[s]
  BY DEF CountedIn, Event
<1>4. Emit(s, "tool_session_started", u, t)
  BY DEF StartSession
<1> HIDE DEF t, u, l
<1>5. Good(s, u, l, expired[s], executed[s], botched[s])
  BY <1>1, <1>2, <1>3 DEF Good, Counts, WithinBudget, EndsRight
<1> QED  BY <1>1, <1>2, <1>3, <1>4, <1>5, EmitKeepsInv DEF l

LEMMA RequestKeepsInv ==
    ASSUME ToolInv, NEW s \in Session, Request(s)
    PROVE  ToolInv'
<1> DEFINE t == sess[s]
           a == IF t.call.tool \in Tools THEN "allow" ELSE "refuse"
           u == [t EXCEPT !.at = a]
           v == Leave(t, "error")
           l == CountedIn(log[s], "tool_call_requested")
<1>1. /\ t \in Object /\ t.at = "request" /\ Good(s, t, log[s], expired[s], executed[s], botched[s])
      /\ a \in {"allow", "refuse"}
  BY SessionFact DEF Request
<1>2. Emit(s, "tool_call_requested", u, v)
  BY DEF Request
<1> HIDE DEF a
<1>3. /\ u \in Object /\ u.at \in {"allow", "refuse"} /\ u.status = t.status /\ u.rounds = t.rounds
      /\ u.calls = t.calls /\ u.outcome = t.outcome
  <2>1. a \in Phase
    BY <1>1 DEF Phase
  <2>2. u \in Object /\ u.at = a /\ u.status = t.status /\ u.rounds = t.rounds
        /\ u.calls = t.calls /\ u.outcome = t.outcome
    BY <1>1, <2>1, AtFact
  <2> QED  BY <1>1, <2>2
<1>4. /\ v \in Object /\ v.at = "idle" /\ v.status = t.status /\ v.rounds = t.rounds /\ v.calls = t.calls
  BY <1>1, LeaveFact DEF Outcome
<1>5. l = log[s]
  BY DEF CountedIn, Event
<1> HIDE DEF t, u, v, l
<1>6. Good(s, u, l, expired[s], executed[s], botched[s])
  BY <1>1, <1>3, <1>5 DEF Good, Counts, WithinBudget, EndsRight, InCall, Done
<1>7. Good(s, v, log[s], expired[s], executed[s], botched[s])
  BY <1>1, <1>4 DEF Good, Counts, WithinBudget, EndsRight, InCall, Done
<1> QED  BY <1>2, <1>3, <1>4, <1>5, <1>6, <1>7, EmitKeepsInv DEF l

LEMMA RefuseKeepsInv ==
    ASSUME ToolInv, NEW s \in Session, Refuse(s)
    PROVE  ToolInv'
<1> DEFINE t == sess[s]
           u == End(t, "denied")
           v == Leave(t, "error")
           l == CountedIn(log[s], "tool_call_denied")
<1>1. /\ t \in Object /\ t.at = "refuse" /\ Good(s, t, log[s], expired[s], executed[s], botched[s])
  BY SessionFact DEF Refuse
<1>2. Emit(s, "tool_call_denied", u, v)
  BY DEF Refuse
<1>3. /\ u \in Object /\ u.rounds = t.rounds /\ u.calls = t.calls
      /\ IF t.status = "active" THEN u.at = "end" /\ u.status = "denied" ELSE u.at = "idle" /\ u.status = t.status
  BY <1>1, EndFact DEF Status
<1>4. /\ v \in Object /\ v.at = "idle" /\ v.status = t.status /\ v.rounds = t.rounds /\ v.calls = t.calls
  BY <1>1, LeaveFact DEF Outcome
<1>5. /\ \A e \in Event \ {"tool_call_denied"} : l[e] = log[s][e]
      /\ {"tool_call_completed", "tool_call_allowed", "tool_session_completed"}
            \subseteq Event \ {"tool_call_denied"}
  BY SessionFact DEF CountedIn, Event
<1> HIDE DEF t, u, v, l
<1>6. Good(s, u, l, expired[s], executed[s], botched[s])
  BY <1>1, <1>3, <1>5 DEF Good, Counts, WithinBudget, EndsRight, InCall, Done
<1>7. Good(s, v, log[s], expired[s], executed[s], botched[s])
  BY <1>1, <1>4 DEF Good, Counts, WithinBudget, EndsRight, InCall, Done
<1>8. Good(s, v, l, expired[s], executed[s], botched[s])
  BY <1>1, <1>4, <1>5, SessionFact DEF Good, Counts, WithinBudget, EndsRight, InCall, Done, Event
<1> QED  BY <1>2, <1>3, <1>4, <1>6, <1>7, <1>8, EmitKeepsInv DEF l

LEMMA AllowKeepsInv ==
    ASSUME ToolInv, NEW s \in Session, Allow(s)
    PROVE  ToolInv'
<1> DEFINE t == sess[s]
           u == [t EXCEPT !.at = "run"]
           v == Leave(t, "error")
           l == CountedIn(log[s], "tool_call_allowed")
<1>1. /\ t \in Object /\ t.at = "allow" /\ Good(s, t, log[s], expired[s], executed[s], botched[s])
      /\ executed[s] \in Nat
  BY SessionFact DEF Allow
<1>2. Emit(s, "tool_call_allowed", u, v)
  BY DEF Allow
<1>3. /\ u \in Object /\ u.at = "run" /\ u.status = t.status /\ u.rounds = t.rounds
      /\ u.calls = t.calls /\ u.outcome = t.outcome
  BY <1>1, AtFact DEF Phase
<1>4. /\ v \in Object /\ v.at = "idle" /\ v.status = t.status /\ v.rounds = t.rounds /\ v.calls = t.calls
  BY <1>1, LeaveFact DEF Outcome
<1>5. /\ l["tool_call_allowed"] = log[s]["tool_call_allowed"] + 1 /\ log[s]["tool_call_allowed"] \in Nat
      /\ l["tool_call_completed"] = log[s]["tool_call_completed"]
      /\ l["tool_session_completed"] = log[s]["tool_session_completed"]
  BY SessionFact DEF CountedIn, Event
<1> HIDE DEF t, u, v, l
<1>6. Good(s, u, l, expired[s], executed[s], botched[s])
  BY <1>1, <1>3, <1>5 DEF Good, Counts, WithinBudget, EndsRight, InCall, Done
<1>7. Good(s, v, log[s], expired[s], executed[s], botched[s])
  BY <1>1, <1>4 DEF Good, Counts, WithinBudget, EndsRight, InCall, Done
<1>8. Good(s, v, l, expired[s], executed[s], botched[s])
  BY <1>1, <1>4, <1>5, SessionFact DEF Good, Counts, WithinBudget, EndsRight, InCall, Done, Event
<1> QED  BY <1>2, <1>3, <1>4, <1>6, <1>7, <1>8, EmitKeepsInv DEF l

LEMMA EndSessionKeepsInv ==
    ASSUME ToolInv, NEW s \in Session, EndSession(s)
    PROVE  ToolInv'
<1> DEFINE t == sess[s]
           u == Leave(t, t.outcome)
           v == Leave(t, "error")
           l == CountedIn(log[s], "tool_session_completed")
<1>1. /\ t \in Object /\ t.at = "end" /\ Good(s, t, log[s], expired[s], executed[s], botched[s])
      /\ t.outcome \in Outcome
  BY SessionFact DEF EndSession
<1>2. Emit(s, "tool_session_completed", u, v)
  BY DEF EndSession
<1>3. /\ u \in Object /\ u.at = "idle" /\ u.status = t.status /\ u.rounds = t.rounds /\ u.calls = t.calls
  BY <1>1, LeaveFact
<1>4. /\ v \in Object /\ v.at = "idle" /\ v.status = t.status /\ v.rounds = t.rounds /\ v.calls = t.calls
  BY <1>1, LeaveFact DEF Outcome
<1>5. /\ l["tool_session_completed"] = log[s]["tool_session_completed"] + 1
      /\ l["tool_call_completed"] = log[s]["tool_call_completed"]
      /\ l["tool_call_allowed"] = log[s]["tool_call_allowed"]
  BY SessionFact DEF CountedIn, Event
<1> HIDE DEF t, u, v, l
<1>6. Good(s, u, l, expired[s], executed[s], botched[s])
  BY <1>1, <1>3, <1>5 DEF Good, Counts, WithinBudget, EndsRight, InCall, Done
<1>7. Good(s, v, log[s], expired[s], executed[s], botched[s])
  BY <1>1, <1>4 DEF Good, Counts, WithinBudget, EndsRight, InCall, Done
<1>8. Good(s, v, l, expired[s], executed[s], botched[s])
  BY <1>1, <1>4, <1>5, SessionFact DEF Good, Counts, WithinBudget, EndsRight, InCall, Done, Event
<1> QED  BY <1>2, <1>3, <1>4, <1>6, <1>7, <1>8, EmitKeepsInv DEF l

-----------------------------------------------------------------------------
\* The exits of a call: it takes its round, whatever it has come to.
LEMMA ReportGood ==
    ASSUME ToolInv, NEW s \in Session, NEW o \in Outcome, sess[s].at \in InCall
    PROVE  /\ Report(sess[s], o) \in Object
           /\ Good(s, Report(sess[s], o), log[s], expired[s], executed[s], botched[s])
<1> DEFINE t == sess[s]
           u == Report(t, o)
<1>1. /\ t \in Object /\ t.at \in InCall /\ t.rounds \in Nat /\ executed[s] \in Nat /\ Budget[s] \in Nat
      /\ t.calls \in Nat /\ botched[s] \in Nat
      /\ Good(s, t, log[s], expired[s], executed[s], botched[s])
      /\ log[s]["tool_call_allowed"] \in Nat
  BY SessionFact DEF Event
<1>2. /\ u \in Object /\ u.at = "report" /\ u.status = t.status /\ u.rounds = t.rounds + 1
      /\ u.calls = t.calls
  BY <1>1, ReportFact
<1> HIDE DEF t, u
<1>3. Good(s, u, log[s], expired[s], executed[s], botched[s])
  BY <1>1, <1>2 DEF Good, Counts, WithinBudget, EndsRight, InCall, Done
<1> QED  BY <1>2, <1>3 DEF u, t

LEMMA DenyKeepsInv ==
    ASSUME ToolInv, NEW s \in Session, Deny(s)
    PROVE  ToolInv'
<1>1. Emit(s, "tool_permission_denied", Report(sess[s], "denied"), Report(sess[s], "error"))
  BY DEF Deny
<1>2. CountedIn(log[s], "tool_permission_denied") = log[s]
  BY DEF CountedIn, Event
<1>3. sess[s].at \in InCall /\ {"denied", "error"} \subseteq Outcome
  BY DEF Deny, InCall, Outcome
<1> QED  BY <1>1, <1>2, <1>3, ReportGood, EmitKeepsInv

LEMMA RecordKeepsInv ==
    ASSUME ToolInv, NEW s \in Session, Record(s)
    PROVE  ToolInv'
<1> DEFINE t == sess[s]
           v == [t EXCEPT !.at = "register"]
           u == IF Registered(t.call.tool) = "none" THEN Report(t, "success") ELSE v
<1>1. Emit(s, "tool_call", u, Report(t, "error"))
  BY DEF Record
<1>2. CountedIn(log[s], "tool_call") = log[s]
  BY DEF CountedIn, Event
<1>3. /\ t \in Object /\ t.at = "record" /\ Good(s, t, log[s], expired[s], executed[s], botched[s])
  BY SessionFact DEF Record
<1>4. t.at \in InCall /\ {"success", "error"} \subseteq Outcome
  BY <1>3 DEF InCall, Outcome
<1>5. v \in Object /\ Good(s, v, log[s], expired[s], executed[s], botched[s])
  <2>1. /\ v \in Object /\ v.at = "register" /\ v.status = t.status /\ v.rounds = t.rounds
        /\ v.calls = t.calls /\ v.outcome = t.outcome
    BY <1>3, AtFact DEF Phase
  <2> HIDE DEF t, v
  <2> QED  BY <1>3, <2>1 DEF Good, Counts, WithinBudget, EndsRight, InCall, Done
<1>6. u \in Object /\ Good(s, u, log[s], expired[s], executed[s], botched[s])
  <2>1. /\ Report(t, "success") \in Object
        /\ Good(s, Report(t, "success"), log[s], expired[s], executed[s], botched[s])
    BY <1>4, ReportGood
  <2> HIDE DEF t, v
  <2> QED  BY <1>5, <2>1
<1>7. /\ Report(t, "error") \in Object
      /\ Good(s, Report(t, "error"), log[s], expired[s], executed[s], botched[s])
  BY <1>4, ReportGood
<1> HIDE DEF t, u, v
<1> QED  BY <1>1, <1>2, <1>6, <1>7, EmitKeepsInv

LEMMA RegisterKeepsInv ==
    ASSUME ToolInv, NEW s \in Session, Register(s)
    PROVE  ToolInv'
<1> DEFINE e == Registered(sess[s].call.tool)
<1>1. Emit(s, e, Report(sess[s], "success"), Report(sess[s], "error"))
  BY DEF Register
<1>2. CountedIn(log[s], e) = log[s]
  BY DEF CountedIn, Event, Registered
<1>3. sess[s].at \in InCall /\ {"success", "error"} \subseteq Outcome
  BY DEF Register, InCall, Outcome
<1> HIDE DEF e
<1> QED  BY <1>1, <1>2, <1>3, ReportGood, EmitKeepsInv

\* A tool that raises, and leaves everything as it was.
LEMMA BreakKeepsInv ==
    ASSUME ToolInv, NEW s \in Session, Break(s)
    PROVE  ToolInv'
<1> DEFINE u == Report(sess[s], "error")
<1>1. /\ sess[s].at \in InCall /\ "error" \in Outcome
      /\ sess' = [sess EXCEPT ![s] = u] /\ faults' = faults + 1 /\ faults < MaxFaults
      /\ UNCHANGED <<log, botched, expired, file, stored, patched, spoiled, executed>>
  BY DEF Break, Fault, Do, files, InCall, Outcome
<1>2. u \in Object /\ Good(s, u, log[s], expired[s], executed[s], botched[s])
  BY <1>1, ReportGood
<1> HIDE DEF u
<1>3. sess \in [Session -> Object] /\ faults \in 0..MaxFaults /\ MaxFaults \in Nat
  BY ToolAssumption DEF ToolInv, TypeOK, Object
<1>4. TypeOK'
  <2>1. sess' \in [Session -> Object] /\ faults' \in 0..MaxFaults
    BY <1>1, <1>2, <1>3
  <2> QED  BY <2>1, <1>1 DEF ToolInv, TypeOK, Object
<1>5. SessionsGood'
  <2>1. sess'[s] = u /\ \A x \in Session \ {s} : sess'[x] = sess[x]
    BY <1>1, <1>3
  <2> QED  BY <2>1, <1>1, <1>2, OneSession DEF ToolInv, Alike
<1> QED  BY <1>4, <1>5 DEF ToolInv

\* tool_call_completed; when the one of a success raises, the call takes another round.
LEMMA ReportCallKeepsInv ==
    ASSUME ToolInv, NEW s \in Session, ReportCall(s)
    PROVE  ToolInv'
<1> DEFINE t == sess[s]
           told == [t EXCEPT !.calls = @ + 1]
           u == Leave(told, t.outcome)
           l == CountedIn(log[s], "tool_call_completed")
           more == botched[s] + 1
           v == IF t.outcome = "success" THEN Report(t, "error") ELSE Leave(t, "error")
<1>1. /\ t \in Object /\ t.at = "report" /\ t.rounds \in Nat /\ t.calls \in Nat /\ t.outcome \in Outcome
      /\ Good(s, t, log[s], expired[s], executed[s], botched[s])
      /\ executed[s] \in Nat /\ Budget[s] \in Nat /\ botched[s] \in Nat /\ "error" \in Outcome
      /\ log[s]["tool_call_completed"] \in Nat
  BY SessionFact DEF ReportCall, Outcome, Event
<1>2. /\ sess \in [Session -> Object] /\ faults \in 0..MaxFaults /\ MaxFaults \in Nat
      /\ log \in [Session -> [Event -> Nat]] /\ botched \in [Session -> Nat]
  BY ToolAssumption DEF ToolInv, TypeOK, Object
<1>c. Counted(s, "tool_call_completed") = [log EXCEPT ![s] = l]
  BY <1>2 DEF Counted, CountedIn
<1>3. /\ UNCHANGED <<expired, file, stored, patched, spoiled, executed>>
      /\ \/ sess' = [sess EXCEPT ![s] = u] /\ faults' = faults /\ log' = [log EXCEPT ![s] = l]
            /\ botched' = botched
         \/ sess' = [sess EXCEPT ![s] = v] /\ faults' = faults + 1 /\ faults < MaxFaults
            /\ (log' = log \/ log' = [log EXCEPT ![s] = l]) /\ botched' = [botched EXCEPT ![s] = more]
  <2> HIDE DEF l
  <2> QED  BY <1>c DEF ReportCall, Logged, Raises, Fault, Do, files
<1>4. /\ l \in [Event -> Nat] /\ l["tool_call_completed"] = log[s]["tool_call_completed"] + 1
      /\ l["tool_call_allowed"] = log[s]["tool_call_allowed"]
      /\ l["tool_session_completed"] = log[s]["tool_session_completed"]
  BY SessionFact DEF CountedIn, Event
<1>5. /\ u \in Object /\ u.at = "idle" /\ u.status = t.status /\ u.rounds = t.rounds
      /\ u.calls = t.calls + 1
  <2>1. told \in Object /\ told.status = t.status /\ told.rounds = t.rounds /\ told.calls = t.calls + 1
    BY <1>1 DEF Object
  <2> HIDE DEF told
  <2> QED  BY <2>1, <1>1, LeaveFact
<1>6. /\ v \in Object /\ v.status = t.status /\ v.calls = t.calls
      /\ IF t.outcome = "success" THEN v.at = "report" /\ v.rounds = t.rounds + 1 /\ v.outcome = "error"
         ELSE v.at = "idle" /\ v.rounds = t.rounds
  <2>1. CASE t.outcome = "success"
    <3>1. v = Report(t, "error")
      BY <2>1
    <3> HIDE DEF t, v
    <3> QED  BY <1>1, <2>1, <3>1, ReportFact
  <2>2. CASE t.outcome # "success"
    <3>1. v = Leave(t, "error")
      BY <2>2
    <3> HIDE DEF t, v
    <3> QED  BY <1>1, <2>2, <3>1, LeaveFact
  <2> QED  BY <2>1, <2>2
<1> HIDE DEF t, u, v, l, told
<1>7. Good(s, u, l, expired[s], executed[s], botched[s])
  BY <1>1, <1>4, <1>5 DEF Good, Counts, WithinBudget, EndsRight, InCall, Done
<1>8. \A k \in {log[s], l} : Good(s, v, k, expired[s], executed[s], more)
  <2>1. Good(s, v, log[s], expired[s], executed[s], more)
    BY <1>1, <1>6 DEF Good, Counts, WithinBudget, EndsRight, InCall, Done
  <2>2. Good(s, v, l, expired[s], executed[s], more)
    BY <1>1, <1>4, <1>6 DEF Good, Counts, WithinBudget, EndsRight, InCall, Done
  <2> QED  BY <2>1, <2>2
<1>9. TypeOK'
  <2>1. sess' \in [Session -> Object]
    BY <1>2, <1>3, <1>5, <1>6
  <2>2. log' \in [Session -> [Event -> Nat]]
    BY <1>2, <1>3, <1>4
  <2>3. more \in Nat
    BY <1>1
  <2> HIDE DEF more
  <2>4. botched' \in [Session -> Nat] /\ faults' \in 0..MaxFaults
    BY <1>2, <1>3, <2>3
  <2> QED  BY <2>1, <2>2, <2>4, <1>3 DEF ToolInv, TypeOK, Object
<1>10. SessionsGood'
  <2>1. \/ sess'[s] = u /\ log'[s] = l /\ botched'[s] = botched[s]
        \/ sess'[s] = v /\ log'[s] \in {log[s], l} /\ botched'[s] = more
    BY <1>2, <1>3
  <2>2. \A x \in Session \ {s} : sess'[x] = sess[x] /\ log'[x] = log[x] /\ botched'[x] = botched[x]
    BY <1>2, <1>3
  <2>3. Good(s, sess'[s], log'[s], expired[s], executed[s], botched'[s])
    BY <2>1, <1>7, <1>8
  <2> QED  BY <2>2, <2>3, <1>3, OneSession DEF ToolInv, Alike
<1> QED  BY <1>9, <1>10 DEF ToolInv

-----------------------------------------------------------------------------
\* A step that moves one object, and leaves the log and the counts alone.
LEMMA MoveKeepsGood ==
    ASSUME ToolInv, NEW s \in Session, NEW u \in Object, sess' = [sess EXCEPT ![s] = u],
           UNCHANGED <<log, botched>>,
           \A x \in Session \ {s} : expired'[x] = expired[x] /\ executed'[x] = executed[x],
           Good(s, u, log[s], expired'[s], executed'[s], botched[s])
    PROVE  SessionsGood' /\ sess' \in [Session -> Object]
<1>1. sess \in [Session -> Object]
  BY DEF ToolInv, TypeOK, Object
<1>2. sess'[s] = u /\ \A x \in Session \ {s} : sess'[x] = sess[x]
  BY <1>1
<1> QED  BY <1>1, <1>2, OneSession DEF ToolInv, Alike

LEMMA CompleteKeepsInv ==
    ASSUME ToolInv, NEW s \in Session, Complete(s)
    PROVE  ToolInv'
<1> DEFINE t == sess[s]
           w == [t EXCEPT !.outcome = "success"]
           u == End(w, "success")
<1>1. /\ t \in Object /\ t.at = "idle" /\ t.status # "none"
      /\ Good(s, t, log[s], expired[s], executed[s], botched[s])
  BY SessionFact DEF Complete
<1>2. sess' = [sess EXCEPT ![s] = u] /\ UNCHANGED <<log, expired, files, executed, botched, faults>>
  BY DEF Complete, Do
<1>3. w \in Object /\ w.status = t.status /\ w.rounds = t.rounds /\ w.calls = t.calls
  BY <1>1 DEF Object, Outcome
<1> HIDE DEF w
<1>4. /\ u \in Object /\ u.rounds = t.rounds /\ u.calls = t.calls
      /\ IF t.status = "active" THEN u.at = "end" /\ u.status = "success" ELSE u.at = "idle" /\ u.status = t.status
  BY <1>3, EndFact DEF Status
<1> HIDE DEF t, u
<1>5. Good(s, u, log[s], expired[s], executed[s], botched[s])
  BY <1>1, <1>4 DEF Good, Counts, WithinBudget, EndsRight, InCall, Done
<1>6. SessionsGood' /\ sess' \in [Session -> Object]
  BY <1>2, <1>4, <1>5, MoveKeepsGood
<1> QED  BY <1>2, <1>6 DEF ToolInv, TypeOK, Object, files

\* The time and the budget are looked at, and nothing else.
LEMMA BeginCallKeepsInv ==
    ASSUME ToolInv, NEW s \in Session, NEW c \in Call[s], NEW late \in BOOLEAN, BeginCall(s, c, late)
    PROVE  ToolInv'
<1> DEFINE t == sess[s]
           w == [t EXCEPT !.begun = @ + 1, !.call = c, !.outcome = "denied"]
           r == [w EXCEPT !.at = "request"]
           u == IF late THEN End(w, "timeout")
                ELSE IF Spent(s) THEN End(w, "max_rounds_exceeded") ELSE r
<1>1. /\ t \in Object /\ t.at = "idle" /\ t.status # "none" /\ t.rounds \in Nat /\ Budget[s] \in Nat
      /\ Good(s, t, log[s], expired[s], executed[s], botched[s]) /\ (expired[s] => late)
  BY SessionFact DEF BeginCall
<1>2. /\ sess' = [sess EXCEPT ![s] = u] /\ expired' = [expired EXCEPT ![s] = late]
      /\ UNCHANGED <<log, files, executed, botched, faults>>
  BY DEF BeginCall, Do
<1>3. /\ w \in Object /\ w.status = t.status /\ w.rounds = t.rounds /\ w.calls = t.calls
  <2>1. c \in Calls /\ t.begun + 1 \in Nat
    BY <1>1 DEF Calls, Object
  <2> QED  BY <1>1, <2>1 DEF Object, Outcome
<1> HIDE DEF w
<1>4. /\ r \in Object /\ r.at = "request" /\ r.status = t.status /\ r.rounds = t.rounds /\ r.calls = t.calls
  BY <1>3, AtFact DEF Phase
<1>5. \A st \in {"timeout", "max_rounds_exceeded"} :
          /\ End(w, st) \in Object /\ End(w, st).rounds = t.rounds /\ End(w, st).calls = t.calls
          /\ IF t.status = "active" THEN End(w, st).at = "end" /\ End(w, st).status = st
             ELSE End(w, st).at = "idle" /\ End(w, st).status = t.status
  BY <1>3, EndFact DEF Status
<1>6. expired \in [Session -> BOOLEAN]
  BY DEF ToolInv, TypeOK
<1>7. u \in Object /\ Good(s, u, log[s], late, executed[s], botched[s])
  <2>1. CASE late
    <3>1. u = End(w, "timeout")
      BY <2>1
    <3> HIDE DEF u, t, r
    <3> QED  BY <1>1, <1>5, <2>1, <3>1 DEF Good, Counts, WithinBudget, EndsRight, InCall, Done
  <2>2. CASE ~late /\ Spent(s)
    <3>1. u = End(w, "max_rounds_exceeded") /\ Budget[s] <= t.rounds
      BY <1>1, <2>2 DEF Spent
    <3> HIDE DEF u, t, r
    <3> QED  BY <1>1, <1>5, <2>2, <3>1 DEF Good, Counts, WithinBudget, EndsRight, InCall, Done
  <2>3. CASE ~late /\ ~Spent(s)
    <3>1. u = r /\ t.rounds < Budget[s]
      BY <1>1, <2>3 DEF Spent
    <3> HIDE DEF u, t, r
    <3> QED  BY <1>1, <1>4, <2>3, <3>1 DEF Good, Counts, WithinBudget, EndsRight, InCall, Done
  <2> QED  BY <2>1, <2>2, <2>3
<1> HIDE DEF u, t, r
<1>8. expired'[s] = late /\ expired' \in [Session -> BOOLEAN]
      /\ \A x \in Session \ {s} : expired'[x] = expired[x]
  BY <1>2, <1>6
<1>9. SessionsGood' /\ sess' \in [Session -> Object]
  BY <1>2, <1>7, <1>8, MoveKeepsGood
<1> QED  BY <1>2, <1>8, <1>9 DEF ToolInv, TypeOK, Object, files

LEMMA RunKeepsInv ==
    ASSUME ToolInv, NEW s \in Session, Run(s)
    PROVE  ToolInv'
<1> DEFINE t == sess[s]
           c == t.call
           d == [t EXCEPT !.at = "deny"]
           w == [t EXCEPT !.at = "write", !.seen = file[c.arg]]
           r == [t EXCEPT !.at = "record"]
           more == executed[s] + 1
<1>1. /\ t \in Object /\ t.at = "run" /\ Good(s, t, log[s], expired[s], executed[s], botched[s])
      /\ executed[s] \in Nat /\ t.rounds \in Nat /\ Budget[s] \in Nat /\ c \in Calls
      /\ log[s]["tool_call_allowed"] \in Nat
  BY SessionFact DEF Run, Event
<1>2. UNCHANGED <<log, expired, file, stored, patched, botched, faults>>
  BY DEF Run
<1>3. \/ sess' = [sess EXCEPT ![s] = d] /\ UNCHANGED <<executed, spoiled>>
      \/ /\ sess' = [sess EXCEPT ![s] = w] /\ c.arg \in Path
         /\ executed' = executed /\ spoiled' \in {spoiled, spoiled \cup {c.arg}}
      \/ sess' = [sess EXCEPT ![s] = r] /\ executed' = [executed EXCEPT ![s] = more] /\ spoiled' = spoiled
  <2>1. CASE ~Permitted(s, c)
    BY <2>1 DEF Run, Do
  <2>2. CASE Permitted(s, c) /\ c.tool \in Writes
    <3>1. c.arg \notin Outside
      BY <2>2 DEF Permitted, AuthorizePath
    <3>2. c.arg \in Path
      BY <2>2, <3>1, <1>1, ToolAssumption
    <3> QED  BY <2>2, <3>2 DEF Run, Do
  <2>3. CASE Permitted(s, c) /\ c.tool \notin Writes
    BY <2>3 DEF Run, Do, TakeEffect
  <2> QED  BY <2>1, <2>2, <2>3
<1>4. /\ d \in Object /\ d.at = "deny" /\ d.status = t.status /\ d.rounds = t.rounds /\ d.calls = t.calls
      /\ r \in Object /\ r.at = "record" /\ r.status = t.status /\ r.rounds = t.rounds /\ r.calls = t.calls
  BY <1>1, AtFact DEF Phase
<1>5. c.arg \in Path => /\ w \in Object /\ w.at = "write" /\ w.status = t.status /\ w.rounds = t.rounds
                         /\ w.calls = t.calls
  <2> SUFFICES ASSUME c.arg \in Path
               PROVE  /\ w \in Object /\ w.at = "write" /\ w.status = t.status /\ w.rounds = t.rounds
                      /\ w.calls = t.calls
    OBVIOUS
  <2> DEFINE f == file[c.arg]
  <2>1. f \in Contents
    BY DEF ToolInv, TypeOK
  <2>2. w = [t EXCEPT !.at = "write", !.seen = f]
    OBVIOUS
  <2> HIDE DEF f, w, t
  <2> QED  BY <1>1, <2>1, <2>2 DEF Object, Phase
<1>6. executed \in [Session -> Nat] /\ spoiled \subseteq {o.arg : o \in Calls} /\ more \in Nat
  BY <1>1 DEF ToolInv, TypeOK
<1> HIDE DEF t, d, w, r, c
<1>7. /\ Good(s, d, log[s], expired[s], executed[s], botched[s])
      /\ Good(s, r, log[s], expired[s], more, botched[s])
  BY <1>1, <1>4 DEF Good, Counts, WithinBudget, EndsRight, InCall, Done
<1>8. c.arg \in Path => Good(s, w, log[s], expired[s], executed[s], botched[s])
  BY <1>1, <1>5 DEF Good, Counts, WithinBudget, EndsRight, InCall, Done
<1> HIDE DEF more
<1>9. executed' \in [Session -> Nat] /\ spoiled' \subseteq {o.arg : o \in Calls}
  BY <1>1, <1>3, <1>6
<1>10. SessionsGood' /\ sess' \in [Session -> Object]
  <2>1. CASE sess' = [sess EXCEPT ![s] = d] /\ executed' = executed
    BY <2>1, <1>2, <1>4, <1>7, MoveKeepsGood
  <2>2. CASE sess' = [sess EXCEPT ![s] = w] /\ c.arg \in Path /\ executed' = executed
    BY <2>2, <1>2, <1>5, <1>8, MoveKeepsGood
  <2>3. CASE sess' = [sess EXCEPT ![s] = r] /\ executed' = [executed EXCEPT ![s] = more]
    <3>1. executed'[s] = more /\ \A x \in Session \ {s} : executed'[x] = executed[x]
      BY <2>3, <1>6
    <3> QED  BY <2>3, <3>1, <1>2, <1>4, <1>7, MoveKeepsGood
  <2> QED  BY <1>3, <2>1, <2>2, <2>3
<1> QED  BY <1>2, <1>9, <1>10 DEF ToolInv, TypeOK, Object

-----------------------------------------------------------------------------
\* A change of the workspace, or of a copy, makes no difference to another session but that
\* its snapshot may be shaken.
Shaking(s, u) ==
    /\ sess' \in [Session -> Object] /\ sess'[s] = u
    /\ \A x \in Session \ {s} :
          /\ Alike(sess[x], sess'[x]) /\ sess'[x].call = sess[x].call /\ sess'[x].seen = sess[x].seen
          /\ sess'[x].todo = sess[x].todo /\ sess'[x].id = sess[x].id
          /\ sess[x].shaken => sess'[x].shaken

LEMMA ShakingFact ==
    ASSUME ToolInv, NEW s \in Session, NEW u \in Object, sess'[s] = u,
           sess' = [x \in Session |-> sess'[x]],
           NEW hit,
           \A x \in Session \ {s} : sess'[x] = [sess[x] EXCEPT !.shaken = @ \/ x \in hit]
    PROVE  Shaking(s, u) /\ \A x \in Session \ {s} : x \in hit => sess'[x].shaken
<1>1. ASSUME NEW o \in Object, NEW x
      PROVE  LET w == [o EXCEPT !.shaken = @ \/ x \in hit] IN
             /\ w \in Object /\ Alike(o, w) /\ w.call = o.call /\ w.seen = o.seen /\ w.todo = o.todo
             /\ w.id = o.id /\ (o.shaken \/ x \in hit => w.shaken)
  BY DEF Object, Alike
<1>2. ASSUME NEW x \in Session \ {s}
      PROVE  /\ sess'[x] \in Object
             /\ Alike(sess[x], sess'[x]) /\ sess'[x].call = sess[x].call /\ sess'[x].seen = sess[x].seen
             /\ sess'[x].todo = sess[x].todo /\ sess'[x].id = sess[x].id
             /\ sess[x].shaken \/ x \in hit => sess'[x].shaken
  <2> DEFINE w == [sess[x] EXCEPT !.shaken = @ \/ x \in hit]
  <2>1. /\ w \in Object /\ Alike(sess[x], w) /\ w.call = sess[x].call /\ w.seen = sess[x].seen
        /\ w.todo = sess[x].todo /\ w.id = sess[x].id /\ (sess[x].shaken \/ x \in hit => w.shaken)
    <3>1. sess[x] \in Object
      BY SessionFact
    <3> QED  BY <1>1, <3>1
  <2>2. sess'[x] = w
    OBVIOUS
  <2> HIDE DEF w
  <2> QED  BY <2>1, <2>2
<1>3. sess' \in [Session -> Object]
  BY <1>2
<1> QED  BY <1>2, <1>3 DEF Shaking

LEMMA SealingShaken ==
    ASSUME ToolInv, NEW s \in Session, NEW u \in Object, DoShaking(s, u, Sealing)
    PROVE  Shaking(s, u) /\ \A x \in Session \ {s} : Sealing(x) => sess'[x].shaken
<1> DEFINE hit == {x \in Session : Sealing(x)}
<1>1. \A x \in Session : x \in hit <=> Sealing(x)
  OBVIOUS
<1> HIDE DEF hit
<1>2. /\ sess'[s] = u /\ sess' = [x \in Session |-> sess'[x]]
      /\ \A x \in Session \ {s} : sess'[x] = [sess[x] EXCEPT !.shaken = @ \/ x \in hit]
  BY <1>1 DEF DoShaking
<1> QED  BY <1>1, <1>2, ShakingFact

Beside(s, x) == sess[x].at = "copy" /\ sess[x].id = sess[s].id

LEMMA BesideShaken ==
    ASSUME ToolInv, NEW s \in Session, BreakCopy(s)
    PROVE  /\ Shaking(s, Report(sess[s], "error"))
           /\ \A x \in Session \ {s} : Beside(s, x) => sess'[x].shaken
<1> DEFINE hit == {x \in Session : Beside(s, x)}
           u == Report(sess[s], "error")
<1>1. \A x \in Session : x \in hit <=> Beside(s, x)
  OBVIOUS
<1>3. u \in Object
  BY SessionFact, ReportFact DEF Outcome
<1> HIDE DEF hit
<1>2. /\ sess'[s] = u /\ sess' = [x \in Session |-> sess'[x]]
      /\ \A x \in Session \ {s} : sess'[x] = [sess[x] EXCEPT !.shaken = @ \/ x \in hit]
  BY <1>1 DEF BreakCopy, DoShaking, Beside
<1> HIDE DEF u
<1>4. Shaking(s, u) /\ \A x \in Session \ {s} : x \in hit => sess'[x].shaken
  BY <1>1, <1>2, <1>3, ShakingFact
<1> QED  BY <1>1, <1>4 DEF u

\* Contents.
LEMMA ContentsFact ==
    /\ {} \in Contents
    /\ \A some, all : some \subseteq all /\ all \in Contents => some \in Contents
    /\ \A one, other \in Contents : one \cup other \in Contents
BY DEF Contents

LEMMA NewFact ==
    ASSUME NEW c \in Calls, NEW seen \in Contents
    PROVE  NewContents(seen, c) \in Contents /\ c.new \in UNION Contents
<1>1. c.new \in UNION Contents /\ {c.new} \in Contents
  <2> DEFINE others == {d.old : d \in Calls} \cup UNION {Workspace[p] : p \in Path}
             news == {d.new : d \in Calls}
  <2>1. c.new \in news /\ Contents = SUBSET (others \cup news)
    BY DEF Contents
  <2> HIDE DEF others, news
  <2> QED  BY <2>1
<1>2. (seen \ {c.old}) \cup {c.new} \in Contents
  BY <1>1 DEF Contents
<1> QED  BY <1>1, <1>2 DEF NewContents, Patched

\* A file is opened to be written.
LEMMA WriteKeepsInv ==
    ASSUME ToolInv, NEW s \in Session, Write(s)
    PROVE  ToolInv'
<1> DEFINE t == sess[s]
           u == [t EXCEPT !.at = "fill"]
<1>1. /\ t \in Object /\ t.at = "write" /\ Good(s, t, log[s], expired[s], executed[s], botched[s])
  BY SessionFact DEF Write
<1>2. /\ UNCHANGED <<log, expired, stored, spoiled, patched, executed, botched, faults>>
      /\ file' = [file EXCEPT ![t.call.arg] = {}] /\ file \in [Path -> Contents]
  BY DEF Write, ToolInv, TypeOK
<1>3. u \in Object /\ u.at = "fill" /\ u.status = t.status /\ u.rounds = t.rounds /\ u.calls = t.calls
  BY <1>1, AtFact DEF Phase
<1>4. Shaking(s, u)
  <2>1. DoShaking(s, u, Sealing)
    BY DEF Write
  <2> HIDE DEF t, u
  <2> QED  BY <2>1, <1>3, SealingShaken
<1> HIDE DEF t, u
<1>5. Good(s, u, log[s], expired[s], executed[s], botched[s])
  BY <1>1, <1>3 DEF Good, Counts, WithinBudget, EndsRight, InCall, Done
<1>6. file' \in [Path -> Contents]
  BY <1>2, ContentsFact
<1>7. SessionsGood'
  BY <1>2, <1>4, <1>5, OneSession DEF ToolInv, Shaking
<1> QED  BY <1>2, <1>4, <1>6, <1>7 DEF ToolInv, TypeOK, Object, Shaking

\* A write takes effect.
LEMMA FillKeepsInv ==
    ASSUME ToolInv, NEW s \in Session, Fill(s)
    PROVE  ToolInv'
<1> DEFINE t == sess[s]
           c == t.call
           u == [t EXCEPT !.at = "seal", !.seen = {}, !.todo = Path]
           more == executed[s] + 1
           new == NewContents(t.seen, c)
<1>1. /\ t \in Object /\ t.at = "fill" /\ Good(s, t, log[s], expired[s], executed[s], botched[s])
      /\ executed[s] \in Nat /\ t.rounds \in Nat /\ Budget[s] \in Nat /\ c \in Calls
      /\ log[s]["tool_call_allowed"] \in Nat /\ t.seen \in Contents
  <2>1. t.seen \in Contents
    BY SessionFact DEF Object
  <2> QED  BY <2>1, SessionFact DEF Fill, Event
<1>2. /\ UNCHANGED <<log, expired, stored, spoiled, botched, faults>>
      /\ executed' = [executed EXCEPT ![s] = more]
  BY DEF Fill, TakeEffect
<1>3. PICK rest \in SUBSET file[c.arg] : file' = [file EXCEPT ![c.arg] = new \cup rest]
  BY DEF Fill
<1>4. new \in Contents /\ c.new \in UNION Contents
  BY <1>1, NewFact
<1>5. u \in Object /\ u.at = "seal" /\ u.status = t.status /\ u.rounds = t.rounds /\ u.calls = t.calls
  BY <1>1, ContentsFact DEF Object, Phase
<1>6. /\ executed \in [Session -> Nat] /\ file \in [Path -> Contents]
      /\ patched \subseteq {d.arg : d \in Calls} \X UNION Contents /\ more \in Nat
  BY <1>1 DEF ToolInv, TypeOK
<1>7. Shaking(s, u)
  <2>1. DoShaking(s, u, Sealing)
    BY DEF Fill
  <2> HIDE DEF t, u
  <2> QED  BY <2>1, <1>5, SealingShaken
<1>8. patched' \subseteq {d.arg : d \in Calls} \X UNION Contents
  <2> DEFINE places == {d.arg : d \in Calls}
  <2>1. c.arg \in places
    BY <1>1
  <2>2. patched' \subseteq patched \cup {<<c.arg, c.new>>}
    BY DEF Fill
  <2> HIDE DEF c, places
  <2>3. patched \subseteq places \X UNION Contents
    BY <1>6 DEF places
  <2>4. patched' \subseteq places \X UNION Contents
    BY <2>1, <2>2, <2>3, <1>4
  <2> QED  BY <2>4 DEF places
<1> HIDE DEF t, c, u, new
<1>9. Good(s, u, log[s], expired[s], more, botched[s])
  BY <1>1, <1>5 DEF Good, Counts, WithinBudget, EndsRight, InCall, Done
<1> HIDE DEF more
<1>10. /\ executed'[s] = more /\ \A x \in Session \ {s} : executed'[x] = executed[x]
       /\ executed' \in [Session -> Nat]
  BY <1>2, <1>6
<1>11. file' \in [Path -> Contents]
  <2>1. CASE c.arg \in Path
    <3>1. file[c.arg] \in Contents
      BY <2>1, <1>6
    <3>2. new \cup rest \in Contents
      BY <3>1, <1>4, ContentsFact
    <3> QED  BY <3>2, <1>3, <1>6
  <2>2. CASE c.arg \notin Path
    BY <2>2, <1>3, <1>6
  <2> QED  BY <2>1, <2>2
<1>12. SessionsGood'
  BY <1>2, <1>7, <1>9, <1>10, OneSession DEF ToolInv, Shaking
<1> QED  BY <1>2, <1>7, <1>8, <1>10, <1>11, <1>12 DEF ToolInv, TypeOK, Object, Shaking

LEMMA BreakFillKeepsInv ==
    ASSUME ToolInv, NEW s \in Session, BreakFill(s)
    PROVE  ToolInv'
<1> DEFINE t == sess[s]
           c == t.call
           u == Report(t, "error")
           new == NewContents(t.seen, c)
<1>1. /\ t \in Object /\ t.at \in InCall /\ "error" \in Outcome /\ c \in Calls /\ t.seen \in Contents
      /\ u \in Object /\ Good(s, u, log[s], expired[s], executed[s], botched[s])
  <2>1. t \in Object /\ t.at \in InCall /\ "error" \in Outcome
    BY SessionFact DEF BreakFill, InCall, Outcome
  <2> QED  BY <2>1, ReportGood DEF Object
<1>2. /\ UNCHANGED <<log, expired, stored, patched, executed, botched>>
      /\ spoiled' = spoiled \cup {c.arg} /\ faults' = faults + 1 /\ faults < MaxFaults
  BY DEF BreakFill, Fault
<1>3. PICK some \in SUBSET (new \cup file[c.arg]) : file' = [file EXCEPT ![c.arg] = some]
  BY DEF BreakFill
<1>4. /\ new \in Contents /\ file \in [Path -> Contents] /\ spoiled \subseteq {d.arg : d \in Calls}
      /\ faults \in 0..MaxFaults /\ MaxFaults \in Nat
  BY <1>1, NewFact, ToolAssumption DEF ToolInv, TypeOK
<1>5. Shaking(s, u)
  <2>1. DoShaking(s, u, Sealing)
    BY DEF BreakFill
  <2> HIDE DEF t, u
  <2> QED  BY <2>1, <1>1, SealingShaken
<1> HIDE DEF t, u, new
<1>6. spoiled' \subseteq {d.arg : d \in Calls}
  BY <1>1, <1>2, <1>4
<1> HIDE DEF c
<1>7. file' \in [Path -> Contents]
  <2>1. CASE c.arg \in Path
    <3>1. file[c.arg] \in Contents
      BY <2>1, <1>4
    <3>2. new \cup file[c.arg] \in Contents
      BY <3>1, <1>4, ContentsFact
    <3>3. some \in Contents
      BY <3>2, <1>3, ContentsFact
    <3> QED  BY <3>3, <1>3, <1>4
  <2>2. CASE c.arg \notin Path
    BY <2>2, <1>3, <1>4
  <2> QED  BY <2>1, <2>2
<1>8. SessionsGood'
  BY <1>1, <1>2, <1>5, OneSession DEF ToolInv, Shaking
<1>9. sess' \in [Session -> Object] /\ faults' \in 0..MaxFaults
  BY <1>2, <1>4, <1>5 DEF Shaking
<1> QED  BY <1>2, <1>6, <1>7, <1>8, <1>9 DEF ToolInv, TypeOK, Object

\* One file is hashed.
LEMMA CollectFilesKeepsInv ==
    ASSUME ToolInv, NEW s \in Session, CollectFiles(s)
    PROVE  ToolInv'
<1> DEFINE t == sess[s]
           p == NextFile(s)
           id == [t.id EXCEPT ![p] = file[p]]
           at == IF LastFile(s) THEN "copy" ELSE "seal"
           todo == IF LastFile(s) THEN Path ELSE t.todo \ {p}
           u == [t EXCEPT !.id = id, !.at = at, !.todo = todo]
<1>1. /\ t \in Object /\ t.at = "seal" /\ Good(s, t, log[s], expired[s], executed[s], botched[s])
      /\ file \in [Path -> Contents] /\ t.id \in [Path -> Contents] /\ t.todo \subseteq Path
  BY SessionFact DEF CollectFiles, ToolInv, TypeOK, Object
<1>2. sess' = [sess EXCEPT ![s] = u] /\ UNCHANGED <<log, expired, files, executed, botched, faults>>
  BY DEF CollectFiles, Do
<1>3. at \in {"seal", "copy"} /\ todo \in SUBSET Path
  BY <1>1
<1> HIDE DEF p, todo, at
<1>4. id \in [Path -> Contents]
  BY <1>1
<1> HIDE DEF id
<1>5. /\ u \in Object /\ u.at \in {"seal", "copy"} /\ u.status = t.status /\ u.rounds = t.rounds
      /\ u.calls = t.calls
  BY <1>1, <1>3, <1>4 DEF Object, Phase
<1> HIDE DEF t, u
<1>6. Good(s, u, log[s], expired[s], executed[s], botched[s])
  BY <1>1, <1>5 DEF Good, Counts, WithinBudget, EndsRight, InCall, Done
<1>7. SessionsGood' /\ sess' \in [Session -> Object]
  BY <1>2, <1>5, <1>6, MoveKeepsGood
<1> QED  BY <1>2, <1>7 DEF ToolInv, TypeOK, Object, files

\* A snapshot's directory, and one file of it.
LEMMA DirectoryFact ==
    ASSUME ToolInv, NEW id \in [Path -> Contents]
    PROVE  /\ Directory(id) \in Snapshot /\ Directory(id).id = id
           /\ (\E e \in stored : e.id = id) => Directory(id) \in stored
           /\ (\A e \in stored : e.id # id) => ~Directory(id).sound
<1>1. stored \subseteq Snapshot
  BY DEF ToolInv, TypeOK
<1>2. CASE \E e \in stored : e.id = id
  BY <1>1, <1>2 DEF Directory
<1>3. CASE ~\E e \in stored : e.id = id
  <2>1. Empty \in [Path -> Contents]
    BY ContentsFact DEF Empty
  <2> QED  BY <1>3, <2>1 DEF Directory, Snapshot
<1> QED  BY <1>2, <1>3

LEMMA KeepFact ==
    ASSUME ToolInv, NEW e \in Snapshot, NEW p, NEW some, p \in Path => some \in Contents,
           NEW sound \in BOOLEAN
    PROVE  LET d == [e EXCEPT !.copy = [@ EXCEPT ![p] = some], !.sound = sound] IN
           /\ d \in Snapshot /\ d.id = e.id /\ d.sound = sound
           /\ d.copy = [e.copy EXCEPT ![p] = some]
           /\ Keep(d) => stored' = {x \in stored : x.id # e.id} \cup {d} /\ stored' \subseteq Snapshot
<1> DEFINE copy == [e.copy EXCEPT ![p] = some]
           d == [e EXCEPT !.copy = copy, !.sound = sound]
<1>1. e.copy \in [Path -> Contents]
  BY DEF Snapshot
<1>2. copy \in [Path -> Contents]
  BY <1>1
<1> HIDE DEF copy
<1>3. d \in Snapshot /\ d.id = e.id /\ d.sound = sound /\ d.copy = copy
  BY <1>2 DEF Snapshot
<1>4. d = [e EXCEPT !.copy = [@ EXCEPT ![p] = some], !.sound = sound]
  BY DEF copy, Snapshot
<1> HIDE DEF d
<1>5. Keep(d) => stored' = {x \in stored : x.id # e.id} \cup {d} /\ stored' \subseteq Snapshot
  BY <1>3 DEF Keep, ToolInv, TypeOK
<1> QED  BY <1>3, <1>4, <1>5 DEF copy

\* One file is copied.
LEMMA CopyFilesKeepsInv ==
    ASSUME ToolInv, NEW s \in Session, CopyFiles(s)
    PROVE  ToolInv'
<1> DEFINE t == sess[s]
           p == NextFile(s)
           e == Directory(t.id)
           sound == (LastFile(s) \/ e.sound) /\ ~t.shaken
           v == [t EXCEPT !.at = "record", !.todo = {}, !.id = Workspace, !.shaken = FALSE]
           rest == t.todo \ {p}
           w == [t EXCEPT !.todo = rest]
           u == IF LastFile(s) THEN v ELSE w
<1>1. /\ t \in Object /\ t.at = "copy" /\ Good(s, t, log[s], expired[s], executed[s], botched[s])
      /\ file \in [Path -> Contents] /\ t.todo \subseteq Path /\ t.id \in [Path -> Contents]
      /\ t.shaken \in BOOLEAN
  BY SessionFact DEF CopyFiles, ToolInv, TypeOK, Object
<1>2. /\ sess' = [sess EXCEPT ![s] = u]
      /\ Keep([e EXCEPT !.copy = [@ EXCEPT ![p] = file[p]], !.sound = sound])
      /\ UNCHANGED <<log, expired, file, patched, spoiled, executed, botched, faults>>
  BY DEF CopyFiles, Do, CopyOf
<1>3. e \in Snapshot /\ sound \in BOOLEAN /\ (p \in Path => file[p] \in Contents)
  BY <1>1, DirectoryFact
<1>4. stored' \subseteq Snapshot
  <2> HIDE DEF e, sound, p, t, u
  <2> QED  BY <1>2, <1>3, KeepFact
<1>5. Workspace \in [Path -> Contents]
  <2>1. "success" \in Outcome
    BY DEF Outcome
  <2>2. Leave(t, "success") \in Object /\ Leave(t, "success").id = Workspace
    BY <1>1, <2>1, LeaveFact DEF Leave, Fresh
  <2> QED  BY <2>2 DEF Object
<1>6. v \in Object /\ v.at = "record" /\ v.status = t.status /\ v.rounds = t.rounds /\ v.calls = t.calls
  BY <1>1, <1>5 DEF Object, Phase
<1>7. w \in Object /\ w.at = "copy" /\ w.status = t.status /\ w.rounds = t.rounds /\ w.calls = t.calls
  <2>1. rest \in SUBSET Path
    BY <1>1
  <2> HIDE DEF rest
  <2> QED  BY <1>1, <2>1 DEF Object
<1> HIDE DEF e, sound, p, v, w, rest
<1>8. /\ u \in Object /\ u.at \in {"copy", "record"} /\ u.status = t.status /\ u.rounds = t.rounds
      /\ u.calls = t.calls
  BY <1>6, <1>7
<1> HIDE DEF t, u
<1>9. Good(s, u, log[s], expired[s], executed[s], botched[s])
  BY <1>1, <1>8 DEF Good, Counts, WithinBudget, EndsRight, InCall, Done
<1>10. SessionsGood' /\ sess' \in [Session -> Object]
  BY <1>2, <1>8, <1>9, MoveKeepsGood
<1> QED  BY <1>2, <1>4, <1>10 DEF ToolInv, TypeOK, Object

LEMMA BreakCopyKeepsInv ==
    ASSUME ToolInv, NEW s \in Session, BreakCopy(s)
    PROVE  ToolInv'
<1> DEFINE t == sess[s]
           p == NextFile(s)
           e == Directory(t.id)
           u == Report(t, "error")
<1>1. /\ t.at \in InCall /\ "error" \in Outcome /\ t.id \in [Path -> Contents]
      /\ file \in [Path -> Contents] /\ faults \in 0..MaxFaults /\ MaxFaults \in Nat
  BY SessionFact, ToolAssumption DEF BreakCopy, InCall, Outcome, ToolInv, TypeOK, Object
<1>2. u \in Object /\ Good(s, u, log[s], expired[s], executed[s], botched[s])
  BY <1>1, ReportGood
<1>3. /\ UNCHANGED <<log, expired, file, patched, spoiled, executed, botched>>
      /\ faults' = faults + 1 /\ faults < MaxFaults
  BY DEF BreakCopy, Fault
<1>4. PICK some \in SUBSET file[p] :
          Keep([e EXCEPT !.copy = [@ EXCEPT ![p] = some], !.sound = FALSE])
  BY DEF BreakCopy
<1>5. stored' \subseteq Snapshot
  <2>1. e \in Snapshot
    BY <1>1, DirectoryFact
  <2>2. p \in Path => some \in Contents
    BY <1>1, <1>4, ContentsFact
  <2> HIDE DEF e, p
  <2> QED  BY <1>4, <2>1, <2>2, KeepFact
<1>6. Shaking(s, u)
  BY BesideShaken
<1> HIDE DEF t, p, e, u
<1>7. SessionsGood'
  BY <1>2, <1>3, <1>6, OneSession DEF ToolInv, Shaking
<1>8. faults' \in 0..MaxFaults
  BY <1>1, <1>3
<1> QED  BY <1>3, <1>5, <1>6, <1>7, <1>8 DEF ToolInv, TypeOK, Object, Shaking
-----------------------------------------------------------------------------
LEMMA InitGood == Init => ToolInv
<1> SUFFICES ASSUME Init
             PROVE  ToolInv
  OBVIOUS
<1>1. Fresh \in Object /\ Workspace \in [Path -> Contents]
  <2>1. NoCall \in Calls
    BY ToolAssumption DEF NoCall
  <2>2. {} \in Contents
    BY DEF Contents
  <2>3. Workspace \in [Path -> Contents]
    <3> DEFINE passages == UNION {Workspace[p] : p \in Path}
               others == {c.old : c \in Calls} \cup {c.new : c \in Calls}
    <3>1. Workspace \in [Path -> SUBSET passages]
      BY ToolAssumption
    <3>2. Contents = SUBSET (others \cup passages)
      BY DEF Contents
    <3> HIDE DEF passages, others
    <3> QED  BY <3>1, <3>2
  <2> QED  BY <2>1, <2>2, <2>3 DEF Fresh, Object, Phase, Status, Outcome
<1>2. TypeOK
  <2>1. sess \in [Session -> Object] /\ file \in [Path -> Contents]
    BY <1>1 DEF Init
  <2>2. log \in [Session -> [Event -> Nat]] /\ expired \in [Session -> BOOLEAN]
    BY DEF Init
  <2>3. executed \in [Session -> Nat] /\ botched \in [Session -> Nat] /\ faults \in 0..MaxFaults
    BY ToolAssumption DEF Init
  <2>4. stored \subseteq Snapshot /\ patched \subseteq {c.arg : c \in Calls} \X UNION Contents
        /\ spoiled \subseteq {c.arg : c \in Calls}
    BY DEF Init
  <2> QED  BY <2>1, <2>2, <2>3, <2>4 DEF TypeOK, Object
<1>3. SessionsGood
  <2> SUFFICES ASSUME NEW s \in Session
               PROVE  Good(s, sess[s], log[s], expired[s], executed[s], botched[s])
    BY DEF SessionsGood
  <2>1. /\ sess[s].at = "idle" /\ sess[s].status = "none" /\ sess[s].rounds = 0 /\ sess[s].calls = 0
        /\ executed[s] = 0 /\ botched[s] = 0 /\ \A e \in Event : log[s][e] = 0
    BY DEF Init, Fresh
  <2>2. Budget[s] \in Nat
    BY ToolAssumption
  <2> QED  BY <2>1, <2>2 DEF Good, Counts, WithinBudget, EndsRight, InCall, Done, Event
<1> QED  BY <1>2, <1>3 DEF ToolInv

LEMMA StepKeepsInv ==
    ASSUME ToolInv, [Next]_vars
    PROVE  ToolInv'
<1>1. CASE UNCHANGED vars
  BY <1>1 DEF vars, ToolInv, TypeOK, SessionsGood
<1>2. CASE Next
  <2>1. PICK s \in Session : \/ StartSession(s) \/ Complete(s)
                             \/ \E c \in Call[s], late \in BOOLEAN : BeginCall(s, c, late)
                             \/ SessionStep(s)
    BY <1>2 DEF Next
  <2>2. CASE StartSession(s) \/ Complete(s)
    BY <2>2, StartKeepsInv, CompleteKeepsInv
  <2>3. CASE \E c \in Call[s], late \in BOOLEAN : BeginCall(s, c, late)
    BY <2>3, BeginCallKeepsInv
  <2>4. CASE Request(s) \/ Refuse(s) \/ Allow(s) \/ EndSession(s)
    BY <2>4, RequestKeepsInv, RefuseKeepsInv, AllowKeepsInv, EndSessionKeepsInv
  <2>5. CASE Run(s) \/ Deny(s) \/ Write(s) \/ Fill(s) \/ CollectFiles(s) \/ CopyFiles(s)
    BY <2>5, RunKeepsInv, DenyKeepsInv, WriteKeepsInv, FillKeepsInv, CollectFilesKeepsInv,
       CopyFilesKeepsInv
  <2>6. CASE Record(s) \/ Register(s) \/ ReportCall(s)
    BY <2>6, RecordKeepsInv, RegisterKeepsInv, ReportCallKeepsInv
  <2>7. CASE Break(s) \/ BreakFill(s) \/ BreakCopy(s)
    BY <2>7, BreakKeepsInv, BreakFillKeepsInv, BreakCopyKeepsInv
  <2> QED  BY <2>1, <2>2, <2>3, <2>4, <2>5, <2>6, <2>7 DEF SessionStep
<1> QED  BY <1>1, <1>2

\* The inductive invariant of tool sessions (tool_adapter.py:300-441): types, and where
\* a session may be with which counts.
THEOREM ToolInvariant == Spec => []ToolInv
BY InitGood, StepKeepsInv, PTL DEF Spec

\* Types, for all constants.
THEOREM ToolTypeCorrect == Spec => []TypeOK
<1>1. ToolInv => TypeOK
  BY DEF ToolInv
<1> QED  BY <1>1, ToolInvariant, PTL

\* Whatever calls a session makes and whatever raises: its tools take effect within the
\* budget only, and each with a tool_call_allowed (tool_adapter.py:306-309, 361-376).
THEOREM BudgetAlwaysHolds == Spec => []BudgetHolds
<1>1. ToolInv => BudgetHolds
  <2> SUFFICES ASSUME ToolInv, NEW s \in Session
               PROVE  /\ executed[s] <= Budget[s] /\ sess[s].rounds <= Budget[s] + 1
                      /\ executed[s] <= log[s]["tool_call_allowed"]
    BY DEF BudgetHolds
  <2> QED  BY SessionFact DEF Good, WithinBudget, Event
<1> QED  BY <1>1, ToolInvariant, PTL

\* A session's rounds are its calls and the reports that raised, and nothing else; the log has
\* each call once, but those whose report raised: they are there up to two times
\* (tool_adapter.py:381, 414-416; event_store.py:171-192).
THEOREM RoundsAlwaysAccountedFor == Spec => []RoundsAccountedFor
<1>1. ToolInv => RoundsAccountedFor
  <2> SUFFICES ASSUME ToolInv, NEW s \in Session, sess[s].at = "idle"
               PROVE  /\ sess[s].rounds = sess[s].calls + botched[s]
                      /\ log[s]["tool_call_completed"] \in sess[s].calls .. sess[s].rounds
    BY DEF RoundsAccountedFor
  <2>1. /\ sess[s].calls \in Nat /\ botched[s] \in Nat /\ log[s]["tool_call_completed"] \in Nat
        /\ Counts(sess[s], log[s], botched[s])
    BY SessionFact DEF Good, Event
  <2> QED  BY <2>1 DEF Counts
<1> QED  BY <1>1, ToolInvariant, PTL

\* A session ends once, however it comes to its end (tool_adapter.py:437-441).
THEOREM EndsAlwaysOnce == Spec => []EndsOnce
<1>1. ToolInv => EndsOnce
  <2> SUFFICES ASSUME ToolInv, NEW s \in Session
               PROVE  /\ log[s]["tool_session_completed"] <= 1
                      /\ log[s]["tool_session_completed"] = 1 => sess[s].status \notin {"none", "active"}
    BY DEF EndsOnce
  <2> QED  BY SessionFact DEF Good, EndsRight
<1> QED  BY <1>1, ToolInvariant, PTL

\* The books of every session agree, whatever is called and whatever raises.
THEOREM AccountsAlwaysAgree == Spec => []SessionAccounts
<1>1. BudgetHolds /\ RoundsAccountedFor /\ EndsOnce => SessionAccounts
  BY DEF SessionAccounts
<1> QED  BY <1>1, BudgetAlwaysHolds, RoundsAlwaysAccountedFor, EndsAlwaysOnce, PTL

\* No tool takes effect in a session that has run out of time or rounds, although nobody
\* looks at its status (tool_adapter.py:300-310).
THEOREM SpentAlwaysStaysSpent == Spec => SpentStaysSpent
<1>1. ASSUME ToolInv, [Next]_vars
      PROVE  \A s \in Session : sess[s].status \in {"timeout", "max_rounds_exceeded"}
                                  => executed'[s] = executed[s]
  <2> SUFFICES ASSUME NEW s \in Session, sess[s].status \in {"timeout", "max_rounds_exceeded"}
               PROVE  executed'[s] = executed[s]
    OBVIOUS
  <2>1. sess[s].at \notin InCall /\ executed \in [Session -> Nat]
    BY <1>1, SessionFact DEF Good, EndsRight, ToolInv, TypeOK
  <2>2. CASE UNCHANGED executed
    BY <2>2
  <2>3. CASE \E x \in Session : Run(x)
    <3>1. PICK x \in Session : Run(x)
      BY <2>3
    <3>2. x # s
      BY <2>1, <3>1 DEF Run, InCall
    <3> QED  BY <2>1, <3>1, <3>2 DEF Run, TakeEffect
  <2>4. CASE \E x \in Session : Fill(x)
    <3>1. PICK x \in Session : Fill(x)
      BY <2>4
    <3>2. x # s
      BY <2>1, <3>1 DEF Fill, InCall
    <3> QED  BY <2>1, <3>1, <3>2 DEF Fill, TakeEffect
  <2>5. ASSUME NEW x \in Session, \/ StartSession(x) \/ Complete(x) \/ Request(x) \/ Refuse(x)
                                 \/ Allow(x) \/ EndSession(x) \/ Deny(x) \/ Record(x) \/ Register(x)
        PROVE  UNCHANGED executed
    BY <2>5 DEF StartSession, Complete, Request, Refuse, Allow, EndSession, Deny, Record, Register, Emit
  <2>6. ASSUME NEW x \in Session, \/ Write(x) \/ CollectFiles(x) \/ CopyFiles(x) \/ ReportCall(x)
                                 \/ Break(x) \/ BreakFill(x) \/ BreakCopy(x)
        PROVE  UNCHANGED executed
    BY <2>6 DEF Write, CollectFiles, CopyFiles, ReportCall, Break, BreakFill, BreakCopy
  <2>7. ASSUME NEW x \in Session, \E c \in Call[x], late \in BOOLEAN : BeginCall(x, c, late)
        PROVE  UNCHANGED executed
    BY <2>7 DEF BeginCall
  <2>8. CASE Next
    <3>1. PICK x \in Session : \/ StartSession(x) \/ Complete(x)
                               \/ \E c \in Call[x], late \in BOOLEAN : BeginCall(x, c, late)
                               \/ SessionStep(x)
      BY <2>8 DEF Next
    <3> QED  BY <2>2, <2>3, <2>4, <2>5, <2>6, <2>7, <3>1 DEF SessionStep
  <2>9. CASE UNCHANGED vars
    BY <2>9, <2>2 DEF vars
  <2> QED  BY <1>1, <2>8, <2>9
<1>2. ToolInv /\ [Next]_vars
      => [\A s \in Session : sess[s].status \in {"timeout", "max_rounds_exceeded"}
                               => executed'[s] = executed[s]]_vars
  BY <1>1
<1> QED  BY <1>2, ToolInvariant, PTL DEF Spec, SpentStaysSpent

-----------------------------------------------------------------------------
(***************************************************************************)
(* The workspace and its snapshots.                                        *)
(***************************************************************************)

\* A session object that takes no part in a write or a snapshot, and is not in the middle of
\* filling a file, or is as before where these are concerned.
Aside(t, u) == \/ t.at # "fill" /\ u.at \notin {"write", "fill", "seal", "copy"}
               \/ /\ u.at = t.at /\ u.call = t.call /\ u.seen = t.seen
                  /\ u.todo = t.todo /\ u.id = t.id /\ u.shaken = t.shaken

\* What every other step does to the workspace: nothing.
Quiet(s) == UNCHANGED files /\ \E u : Do(s, u) /\ Aside(sess[s], u)

LEMMA EmitIsQuiet ==
    ASSUME NEW s \in Session, NEW event, NEW next, NEW raised, Emit(s, event, next, raised),
           Aside(sess[s], next), Aside(sess[s], raised)
    PROVE  Quiet(s)
BY DEF Emit, Logged, Raises, Quiet

LEMMA LeftAside ==
    ASSUME NEW t \in Object, NEW o \in Outcome, NEW w, w.at # "fill"
    PROVE  Aside(w, Leave(t, o)) /\ Aside(w, Report(t, o))
BY LeaveFact, ReportFact DEF Aside

LEMMA EndedAside ==
    ASSUME NEW t \in Object, NEW st \in Status, NEW w, w.at # "fill"
    PROVE  Aside(w, End(t, st))
<1>1. End(t, st).at \in {"end", "idle"}
  BY EndFact
<1> QED  BY <1>1 DEF Aside

\* Only these steps touch the workspace, a snapshot, or what a session knows of them.
LEMMA StepShape ==
    ASSUME ToolInv, Next
    PROVE  \E s \in Session : \/ Run(s) \/ Write(s) \/ Fill(s) \/ CollectFiles(s) \/ CopyFiles(s)
                             \/ BreakFill(s) \/ BreakCopy(s) \/ Quiet(s)
<1>t. ASSUME NEW s \in Session
      PROVE  sess[s] \in Object /\ sess[s].outcome \in Outcome /\ sess[s].call \in Calls
  BY SessionFact
<1>o. {"success", "denied", "error"} \subseteq Outcome
      /\ {"success", "denied", "timeout", "max_rounds_exceeded"} \subseteq Status
  BY DEF Outcome, Status
<1>a. ASSUME NEW t \in Object, NEW a \in Phase \ {"write", "fill", "seal", "copy"},
             NEW w, w.at # "fill"
      PROVE  Aside(w, [t EXCEPT !.at = a])
  <2>1. [t EXCEPT !.at = a].at = a
    BY DEF Object
  <2> QED  BY <1>a, <2>1 DEF Aside
<1>1. ASSUME NEW s \in Session, StartSession(s) PROVE Quiet(s)
  <2>1. Aside(sess[s], [sess[s] EXCEPT !.status = "active"]) /\ Aside(sess[s], sess[s])
    BY <1>t DEF Aside, Object
  <2> QED  BY <1>1, <2>1, EmitIsQuiet DEF StartSession
<1>2. ASSUME NEW s \in Session, Complete(s) PROVE Quiet(s)
  <2> DEFINE w == [sess[s] EXCEPT !.outcome = "success"]
  <2>1. w \in Object
    BY <1>t, <1>o DEF Object
  <2> HIDE DEF w
  <2>2. Aside(sess[s], End(w, "success"))
    BY <1>2, <2>1, <1>o, EndedAside DEF Complete
  <2> QED  BY <1>2, <2>2 DEF Complete, Quiet, w
<1>3. ASSUME NEW s \in Session, NEW c \in Call[s], NEW late \in BOOLEAN, BeginCall(s, c, late)
      PROVE  Quiet(s)
  <2> DEFINE w == [sess[s] EXCEPT !.begun = @ + 1, !.call = c, !.outcome = "denied"]
             u == IF late THEN End(w, "timeout")
                  ELSE IF Spent(s) THEN End(w, "max_rounds_exceeded")
                  ELSE [w EXCEPT !.at = "request"]
  <2>1. w \in Object
    <3>1. c \in Calls /\ sess[s].begun + 1 \in Nat
      BY <1>t DEF Calls, Object
    <3> QED  BY <1>t, <1>o, <3>1 DEF Object
  <2> HIDE DEF w
  <2>2. Aside(sess[s], End(w, "timeout")) /\ Aside(sess[s], End(w, "max_rounds_exceeded"))
    BY <1>3, <2>1, <1>o, EndedAside DEF BeginCall
  <2>3. Aside(sess[s], [w EXCEPT !.at = "request"])
    BY <1>3, <2>1, <1>a DEF Phase, BeginCall
  <2>4. Aside(sess[s], u)
    BY <2>2, <2>3
  <2>5. Do(s, u) /\ UNCHANGED files
    BY <1>3 DEF BeginCall, w
  <2> QED  BY <2>4, <2>5 DEF Quiet
<1>4. ASSUME NEW s \in Session, Request(s) PROVE Quiet(s)
  <2>1. ASSUME NEW a \in {"allow", "refuse"} PROVE Aside(sess[s], [sess[s] EXCEPT !.at = a])
    BY <1>4, <1>t, <1>a DEF Phase, Request
  <2>2. Aside(sess[s], Leave(sess[s], "error"))
    BY <1>4, <1>t, <1>o, LeftAside DEF Request
  <2> QED  BY <1>4, <2>1, <2>2, EmitIsQuiet DEF Request
<1>5. ASSUME NEW s \in Session, Refuse(s) PROVE Quiet(s)
  BY <1>5, <1>t, <1>o, LeftAside, EndedAside, EmitIsQuiet DEF Refuse
<1>6. ASSUME NEW s \in Session, Allow(s) PROVE Quiet(s)
  <2>1. Aside(sess[s], [sess[s] EXCEPT !.at = "run"])
    BY <1>6, <1>t, <1>a DEF Phase, Allow
  <2> QED  BY <1>6, <2>1, <1>t, <1>o, LeftAside, EmitIsQuiet DEF Allow
<1>7. ASSUME NEW s \in Session, EndSession(s) PROVE Quiet(s)
  BY <1>7, <1>t, <1>o, LeftAside, EmitIsQuiet DEF EndSession
<1>8. ASSUME NEW s \in Session, Deny(s) PROVE Quiet(s)
  BY <1>8, <1>t, <1>o, LeftAside, EmitIsQuiet DEF Deny
<1>9. ASSUME NEW s \in Session, Record(s) PROVE Quiet(s)
  <2>1. Aside(sess[s], [sess[s] EXCEPT !.at = "register"])
    BY <1>9, <1>t, <1>a DEF Phase, Record
  <2> QED  BY <1>9, <2>1, <1>t, <1>o, LeftAside, EmitIsQuiet DEF Record
<1>10. ASSUME NEW s \in Session, Register(s) PROVE Quiet(s)
  BY <1>10, <1>t, <1>o, LeftAside, EmitIsQuiet DEF Register
<1>11. ASSUME NEW s \in Session, Break(s) PROVE Quiet(s)
  BY <1>11, <1>t, <1>o, LeftAside DEF Break, Quiet
<1>12. ASSUME NEW s \in Session, ReportCall(s) PROVE Quiet(s)
  <2> DEFINE w == [sess[s] EXCEPT !.calls = @ + 1]
  <2>1. w \in Object
    <3>1. sess[s].calls + 1 \in Nat
      BY <1>t DEF Object
    <3> QED  BY <1>t, <3>1 DEF Object
  <2> HIDE DEF w
  <2>2. Aside(sess[s], Leave(w, sess[s].outcome))
    BY <1>12, <2>1, <1>t, LeftAside DEF ReportCall
  <2>3. Aside(sess[s], Leave(sess[s], "error")) /\ Aside(sess[s], Report(sess[s], "error"))
    BY <1>12, <1>t, <1>o, LeftAside DEF ReportCall
  <2> QED  BY <1>12, <2>2, <2>3 DEF ReportCall, Logged, Raises, Quiet, w
<1> QED  BY <1>1, <1>2, <1>3, <1>4, <1>5, <1>6, <1>7, <1>8, <1>9, <1>10, <1>11, <1>12
         DEF Next, SessionStep

\* A step of this kind keeps what sessions have read and hashed.
LEMMA QuietKeeps ==
    ASSUME ToolInv, NEW s \in Session, Quiet(s)
    PROVE  (ReadInv => ReadInv') /\ (HashInv => HashInv')
<1>1. PICK u : Do(s, u) /\ Aside(sess[s], u)
  BY DEF Quiet
<1>2. sess'[s] = u /\ \A x \in Session : x # s => sess'[x] = sess[x]
  BY <1>1 DEF Do, ToolInv, TypeOK
<1>3. \A x \in Session : Aside(sess[x], sess'[x])
  BY <1>1, <1>2 DEF Aside
<1>4. UNCHANGED <<file, stored, patched, spoiled>>
  BY DEF Quiet, files
<1>5. \A path : Filling(path)' = Filling(path)
  BY <1>3 DEF Filling, Aside
<1>6. ReadInv => ReadInv'
  BY <1>3, <1>4, <1>5 DEF ReadInv, PatchesLast, Aside
<1>7. HashInv => HashInv'
  BY <1>3, <1>4 DEF HashInv, Aside
<1> QED  BY <1>6, <1>7

\* A write has read what it is about to replace.
LEMMA RunKeeps ==
    ASSUME ToolInv, NEW s \in Session, Run(s)
    PROVE  (ReadInv => ReadInv') /\ (HashInv => HashInv')
<1>1. PICK t \in Object : t = sess[s]
  BY SessionFact
<1>2. /\ t.at = "run" /\ t.call \in Calls /\ UNCHANGED <<file, stored, patched>>
      /\ sess \in [Session -> Object]
  BY <1>1, SessionFact DEF Run, ToolInv, TypeOK, Object
<1>3. ASSUME NEW u, Do(s, u), u.at \in {"deny", "record"}, spoiled' = spoiled
      PROVE  (ReadInv => ReadInv') /\ (HashInv => HashInv')
  <2>1. Quiet(s)
    BY <1>1, <1>2, <1>3 DEF Quiet, Aside, files
  <2> QED  BY <2>1, QuietKeeps
<1>4. CASE ~(Permitted(s, t.call) /\ t.call.tool \in Writes)
  <2>1. PICK d : d = [t EXCEPT !.at = "deny"]
    OBVIOUS
  <2>2. PICK r : r = [t EXCEPT !.at = "record"]
    OBVIOUS
  <2>3. d.at = "deny" /\ r.at = "record"
    BY <2>1, <2>2 DEF Object
  <2>4. (Do(s, d) \/ Do(s, r)) /\ spoiled' = spoiled
    BY <1>1, <1>4, <2>1, <2>2 DEF Run
  <2> QED  BY <1>3, <2>3, <2>4
<1>5. CASE Permitted(s, t.call) /\ t.call.tool \in Writes
  <2>1. t.call.arg \in Path
    BY <1>2, <1>5, ToolAssumption DEF Permitted, AuthorizePath
  <2>2. PICK u : u = [t EXCEPT !.at = "write", !.seen = file[t.call.arg]]
    OBVIOUS
  <2>3. u.at = "write" /\ u.call = t.call /\ u.seen = file[t.call.arg]
    BY <2>2 DEF Object
  <2>4. /\ Do(s, u)
        /\ spoiled' = IF Writing(t.call.arg) = {} THEN spoiled ELSE spoiled \cup {t.call.arg}
    BY <1>1, <1>5, <2>2 DEF Run
  <2>5. sess'[s] = u /\ \A x \in Session : x # s => sess'[x] = sess[x]
    BY <1>2, <2>4 DEF Do
  <2>6. /\ spoiled \subseteq spoiled'
        /\ t.call.arg \notin spoiled'
           => \A x \in Session : sess[x].at \in {"write", "fill"} => sess[x].call.arg # t.call.arg
    BY <2>4 DEF Writing, Filling
  <2>7. \A path : Filling(path)' = Filling(path)
    BY <1>1, <1>2, <2>3, <2>5 DEF Filling
  <2>8. ASSUME ReadInv PROVE ReadInv'
    <3>1. /\ \A x \in Session : sess'[x].at \in {"write", "fill"} => sess'[x].call.arg \in Path
          /\ \A p \in patched' : p[1] \in Path
      BY <1>2, <2>1, <2>3, <2>5, <2>8 DEF ReadInv
    <3>2. \A x, y \in Session :
             /\ sess'[x].at \in {"write", "fill"} /\ sess'[y].at \in {"write", "fill"}
             /\ sess'[x].call.arg = sess'[y].call.arg /\ sess'[x].call.arg \notin spoiled'
             => x = y
      BY <2>3, <2>5, <2>6, <2>8 DEF ReadInv
    <3>3. \A x \in Session :
             sess'[x].call.arg \notin spoiled' =>
                 /\ sess'[x].at = "write" => sess'[x].seen = file'[sess'[x].call.arg]
                 /\ sess'[x].at = "fill" =>
                       \A p \in patched' : p[1] = sess'[x].call.arg => p[2] \in sess'[x].seen
      BY <1>2, <2>3, <2>5, <2>6, <2>8 DEF ReadInv
    <3>4. PatchesLast'
      BY <1>2, <2>6, <2>7, <2>8 DEF ReadInv, PatchesLast
    <3> QED  BY <3>1, <3>2, <3>3, <3>4 DEF ReadInv
  <2>9. HashInv => HashInv'
    BY <1>2, <2>3, <2>5 DEF HashInv
  <2> QED  BY <2>8, <2>9
<1> QED  BY <1>4, <1>5

\* What a change of the workspace leaves of the other sessions.
LEMMA OthersFact ==
    ASSUME ToolInv, NEW s \in Session, NEW u, Shaking(s, u), NEW x \in Session \ {s}
    PROVE  /\ sess'[x].at = sess[x].at /\ sess'[x].call = sess[x].call
           /\ sess'[x].seen = sess[x].seen /\ sess'[x].todo = sess[x].todo
           /\ sess'[x].id = sess[x].id /\ (sess[x].shaken => sess'[x].shaken)
BY DEF Shaking, Alike

\* Whatever is done to the files: who is sealing a snapshot is shaken, and who is not has hashed
\* nothing yet.
LEMMA ChangeKeepsHashes ==
    ASSUME ToolInv, NEW s \in Session, NEW u, Shaking(s, u), UNCHANGED stored,
           \A x \in Session \ {s} : Sealing(x) => sess'[x].shaken,
           \/ u.at \notin {"seal", "copy"}
           \/ u.at = "seal" /\ u.todo = Path /\ Path # {}
    PROVE  HashInv => HashInv'
<1> SUFFICES ASSUME HashInv PROVE HashInv'
  OBVIOUS
<1>1. sess'[s] = u
  BY DEF Shaking
<1>2. \A d, e \in stored' : d.id = e.id => d = e
  BY DEF HashInv
<1>3. \A e \in stored' : e.sound => e.copy = e.id
  BY DEF HashInv
<1>4. ASSUME NEW x \in Session, ~sess'[x].shaken
      PROVE  /\ sess'[x].at # "copy"
             /\ sess'[x].at = "seal" => Path \ sess'[x].todo = {}
  <2>1. CASE x = s
    BY <1>1, <2>1
  <2>2. CASE x # s
    BY <1>4, <2>2, OthersFact DEF Sealing
  <2> QED  BY <2>1, <2>2
<1>5. ASSUME NEW x \in Session, sess'[x].at \in {"seal", "copy"} PROVE sess'[x].todo # {}
  <2>1. CASE x = s
    BY <1>1, <1>5, <2>1
  <2>2. CASE x # s
    BY <1>5, <2>2, OthersFact DEF HashInv
  <2> QED  BY <2>1, <2>2
<1> QED  BY <1>2, <1>3, <1>4, <1>5 DEF HashInv

\* Opening a file to write it: its patches are in what the session has read.
LEMMA WriteKeeps ==
    ASSUME ToolInv, NEW s \in Session, Write(s)
    PROVE  (ReadInv => ReadInv') /\ (HashInv => HashInv')
<1>1. PICK t \in Object : t = sess[s]
  BY SessionFact
<1>2. PICK u : u = [t EXCEPT !.at = "fill"]
  OBVIOUS
<1>3. /\ u \in Object /\ u.at = "fill" /\ u.call = t.call /\ u.seen = t.seen
  BY <1>2 DEF Object, Phase
<1>4. /\ t.at = "write" /\ UNCHANGED <<stored, spoiled, patched>>
      /\ DoShaking(s, u, Sealing)
      /\ file' = [file EXCEPT ![t.call.arg] = {}] /\ file \in [Path -> Contents]
  BY <1>1, <1>2 DEF Write, ToolInv, TypeOK
<1>5. Shaking(s, u) /\ \A x \in Session \ {s} : Sealing(x) => sess'[x].shaken
  BY <1>3, <1>4, SealingShaken
<1>6. sess'[s] = u
  BY <1>5 DEF Shaking
<1>7. HashInv => HashInv'
  BY <1>3, <1>4, <1>5, ChangeKeepsHashes
<1>8. ASSUME ReadInv PROVE ReadInv'
  <2> DEFINE path == t.call.arg
  <2>1. path \in Path
    BY <1>1, <1>4, <1>8 DEF ReadInv
  <2>2. ASSUME NEW x \in Session
        PROVE  /\ sess'[x].call.arg = sess[x].call.arg /\ sess'[x].seen = sess[x].seen
               /\ x # s => sess'[x].at = sess[x].at
               /\ sess'[x].at \in {"write", "fill"} <=> sess[x].at \in {"write", "fill"}
    BY <1>1, <1>3, <1>4, <1>5, <1>6, OthersFact
  <2>3. path \notin spoiled =>
            /\ t.seen = file[path]
            /\ \A x \in Session : /\ sess[x].at \in {"write", "fill"} /\ sess[x].call.arg = path
                                  => x = s
    BY <1>1, <1>4, <1>8 DEF ReadInv
  <2>4. path \notin spoiled => \A p \in patched : p[1] = path => p[2] \in t.seen
    <3>1. path \notin spoiled => Filling(path) = {}
      BY <1>1, <1>4, <2>3 DEF Filling
    <3> QED  BY <1>8, <2>3, <3>1 DEF ReadInv, PatchesLast
  <2>5. /\ \A x \in Session : sess'[x].at \in {"write", "fill"} => sess'[x].call.arg \in Path
        /\ \A p \in patched' : p[1] \in Path
    BY <1>4, <1>8, <2>2 DEF ReadInv
  <2>6. \A x, y \in Session :
           /\ sess'[x].at \in {"write", "fill"} /\ sess'[y].at \in {"write", "fill"}
           /\ sess'[x].call.arg = sess'[y].call.arg /\ sess'[x].call.arg \notin spoiled'
           => x = y
    BY <1>4, <1>8, <2>2 DEF ReadInv
  <2>7. ASSUME NEW x \in Session, sess'[x].call.arg \notin spoiled'
        PROVE  /\ sess'[x].at = "write" => sess'[x].seen = file'[sess'[x].call.arg]
               /\ sess'[x].at = "fill" =>
                     \A p \in patched' : p[1] = sess'[x].call.arg => p[2] \in sess'[x].seen
    <3>1. CASE x = s
      BY <1>1, <1>3, <1>4, <1>6, <2>4, <2>7, <3>1
    <3>2. CASE x # s
      <4>1. /\ sess[x].at = "write" => sess[x].seen = file[sess[x].call.arg]
            /\ sess[x].at = "fill" =>
                  \A p \in patched : p[1] = sess[x].call.arg => p[2] \in sess[x].seen
        BY <1>4, <1>8, <2>2, <2>7 DEF ReadInv
      <4>2. sess[x].at = "write" => sess[x].call.arg # path
        BY <1>4, <2>2, <2>3, <2>7, <3>2
      <4> QED  BY <1>4, <2>2, <3>2, <4>1, <4>2
    <3> QED  BY <3>1, <3>2
  <2>8. PatchesLast'
    <3> SUFFICES ASSUME NEW p \in patched, p[1] \notin spoiled, Filling(p[1])' = {}
                 PROVE  p[2] \in file'[p[1]]
      BY <1>4 DEF PatchesLast
    <3>1. p[1] # path
      BY <1>3, <1>6, <1>1, <1>4 DEF Filling
    <3>2. Filling(p[1]) = {}
      BY <1>1, <1>4, <2>2 DEF Filling
    <3> QED  BY <1>4, <1>8, <3>1, <3>2 DEF ReadInv, PatchesLast
  <2> QED  BY <2>5, <2>6, <2>7, <2>8 DEF ReadInv
<1> QED  BY <1>7, <1>8

\* Filling it: if nobody else was writing, the other patches are in place again.
LEMMA FillKeeps ==
    ASSUME ToolInv, NEW s \in Session, Fill(s)
    PROVE  /\ ReadInv => ReadInv'
           /\ ReadInv /\ HashInv => HashInv'
<1>1. PICK t \in Object : t = sess[s]
  BY SessionFact
<1>2. PICK c : c = t.call
  OBVIOUS
<1>3. PICK u : u = [t EXCEPT !.at = "seal", !.seen = {}, !.todo = Path]
  OBVIOUS
<1>4. u \in Object /\ u.at = "seal" /\ u.todo = Path
  BY <1>3, ContentsFact DEF Object, Phase
<1>5. /\ t.at = "fill" /\ UNCHANGED <<stored, spoiled>> /\ DoShaking(s, u, Sealing)
      /\ file \in [Path -> Contents]
  BY <1>1, <1>3 DEF Fill, ToolInv, TypeOK
<1>6. PICK rest : file' = [file EXCEPT ![c.arg] = NewContents(t.seen, c) \cup rest]
  BY <1>1, <1>2 DEF Fill
<1>7. patched' = IF c.tool = "apply_patch"
                 THEN (patched \ {<<c.arg, c.old>>}) \cup {<<c.arg, c.new>>}
                 ELSE {p \in patched : p[1] # c.arg}
  BY <1>1, <1>2 DEF Fill
<1>8. Shaking(s, u) /\ \A x \in Session \ {s} : Sealing(x) => sess'[x].shaken
  BY <1>4, <1>5, SealingShaken
<1>9. sess'[s] = u
  BY <1>8 DEF Shaking
<1>10. ReadInv => c.arg \in Path
  BY <1>1, <1>2, <1>5 DEF ReadInv
<1>11. ReadInv /\ HashInv => HashInv'
  BY <1>4, <1>5, <1>8, <1>10, ChangeKeepsHashes
<1>12. ASSUME ReadInv PROVE ReadInv'
  <2>1. /\ \A q : q # c.arg => file'[q] = file[q] \/ q \notin Path
        /\ file'[c.arg] = NewContents(t.seen, c) \cup rest
    BY <1>5, <1>6, <1>10, <1>12
  <2>2. ASSUME NEW x \in Session, sess'[x].at \in {"write", "fill"}
        PROVE  /\ x # s /\ sess'[x].call.arg = sess[x].call.arg /\ sess'[x].seen = sess[x].seen
               /\ sess'[x].at = sess[x].at /\ sess[x].call.arg \in Path
               /\ sess[x].call.arg \notin spoiled => sess[x].call.arg # c.arg
    <3>1. x # s
      BY <1>4, <1>9, <2>2
    <3>2. sess'[x].call.arg = sess[x].call.arg /\ sess'[x].seen = sess[x].seen
          /\ sess'[x].at = sess[x].at
      BY <1>8, <3>1, OthersFact
    <3> QED  BY <1>1, <1>2, <1>5, <1>12, <2>2, <3>1, <3>2 DEF ReadInv
  <2>3. ASSUME NEW p \in patched' PROVE p[1] \in Path /\ (p[1] # c.arg => p \in patched)
    BY <1>7, <1>10, <1>12, <2>3 DEF ReadInv
  <2>4. \A x, y \in Session :
           /\ sess'[x].at \in {"write", "fill"} /\ sess'[y].at \in {"write", "fill"}
           /\ sess'[x].call.arg = sess'[y].call.arg /\ sess'[x].call.arg \notin spoiled'
           => x = y
    BY <1>5, <1>12, <2>2 DEF ReadInv
  <2>5. ASSUME NEW x \in Session, sess'[x].call.arg \notin spoiled'
        PROVE  /\ sess'[x].at = "write" => sess'[x].seen = file'[sess'[x].call.arg]
               /\ sess'[x].at = "fill" =>
                     \A p \in patched' : p[1] = sess'[x].call.arg => p[2] \in sess'[x].seen
    <3> SUFFICES ASSUME sess'[x].at \in {"write", "fill"}
                 PROVE  /\ sess'[x].at = "write" => sess'[x].seen = file'[sess'[x].call.arg]
                        /\ sess'[x].at = "fill" =>
                              \A p \in patched' : p[1] = sess'[x].call.arg => p[2] \in sess'[x].seen
      OBVIOUS
    <3>1. /\ sess'[x].call.arg = sess[x].call.arg /\ sess'[x].seen = sess[x].seen
          /\ sess'[x].at = sess[x].at /\ sess[x].call.arg \in Path /\ sess[x].call.arg # c.arg
          /\ sess[x].call.arg \notin spoiled
      BY <1>5, <2>2, <2>5
    <3>2. /\ sess[x].at = "write" => sess[x].seen = file[sess[x].call.arg]
          /\ sess[x].at = "fill" =>
                \A p \in patched : p[1] = sess[x].call.arg => p[2] \in sess[x].seen
      BY <1>12, <3>1 DEF ReadInv
    <3> QED  BY <2>1, <2>3, <3>1, <3>2
  <2>6. PatchesLast'
    <3> SUFFICES ASSUME NEW p \in patched', p[1] \notin spoiled, Filling(p[1])' = {}
                 PROVE  p[2] \in file'[p[1]]
      BY <1>5 DEF PatchesLast
    <3>1. CASE p[1] # c.arg
      <4>1. Filling(p[1]) = {}
        <5> SUFFICES ASSUME NEW x \in Filling(p[1]) PROVE FALSE
          OBVIOUS
        <5>1. x \in Session /\ sess[x].at = "fill" /\ sess[x].call.arg = p[1]
          BY DEF Filling
        <5>2. x # s
          BY <1>1, <1>2, <3>1, <5>1
        <5>3. sess'[x].at = "fill" /\ sess'[x].call.arg = p[1]
          BY <1>8, <5>1, <5>2, OthersFact
        <5> QED  BY <5>1, <5>3 DEF Filling
      <4>2. p[2] \in file[p[1]]
        BY <1>12, <2>3, <3>1, <4>1 DEF ReadInv, PatchesLast
      <4> QED  BY <2>1, <2>3, <3>1, <4>2
    <3>2. CASE p[1] = c.arg
      <4>1. c.tool = "apply_patch"
        BY <1>7, <3>2
      <4>2. file'[c.arg] = ((t.seen \ {c.old}) \cup {c.new}) \cup rest
        BY <2>1, <4>1 DEF NewContents, Patched
      <4>3. CASE p = <<c.arg, c.new>>
        BY <3>2, <4>2, <4>3
      <4>4. CASE p # <<c.arg, c.new>>
        <5>1. p \in patched /\ p # <<c.arg, c.old>>
          BY <1>7, <4>1, <4>4
        <5>2. p = <<p[1], p[2]>>
          BY <5>1 DEF ToolInv, TypeOK
        <5>3. p[2] # c.old
          BY <3>2, <5>1, <5>2
        <5>4. p[2] \in t.seen
          BY <1>1, <1>2, <1>5, <1>12, <3>2, <5>1 DEF ReadInv
        <5> QED  BY <3>2, <4>2, <5>3, <5>4
      <4> QED  BY <4>3, <4>4
    <3> QED  BY <3>1, <3>2
  <2> QED  BY <2>2, <2>3, <2>4, <2>5, <2>6 DEF ReadInv
<1> QED  BY <1>11, <1>12

\* A write that is cut short spoils its file.
LEMMA BreakFillKeeps ==
    ASSUME ToolInv, NEW s \in Session, BreakFill(s)
    PROVE  (ReadInv => ReadInv') /\ (HashInv => HashInv')
<1>1. PICK t \in Object : t = sess[s]
  BY SessionFact
<1>2. PICK u : u = Report(t, "error")
  OBVIOUS
<1>3. PICK c : c = t.call
  OBVIOUS
<1>4. u \in Object /\ u.at = "report"
  BY <1>2, ReportFact DEF Outcome
<1>5. /\ t.at = "fill" /\ UNCHANGED <<stored, patched>> /\ spoiled' = spoiled \cup {c.arg}
      /\ DoShaking(s, u, Sealing) /\ file \in [Path -> Contents]
  BY <1>1, <1>2, <1>3 DEF BreakFill, ToolInv, TypeOK
<1>6. PICK some : file' = [file EXCEPT ![c.arg] = some]
  BY <1>1, <1>3 DEF BreakFill
<1>7. Shaking(s, u) /\ \A x \in Session \ {s} : Sealing(x) => sess'[x].shaken
  BY <1>4, <1>5, SealingShaken
<1>8. sess'[s] = u
  BY <1>7 DEF Shaking
<1>9. HashInv => HashInv'
  BY <1>4, <1>5, <1>7, ChangeKeepsHashes
<1>10. ASSUME ReadInv PROVE ReadInv'
  <2>1. ASSUME NEW x \in Session, sess'[x].at \in {"write", "fill"}
        PROVE  /\ x # s /\ sess'[x].call.arg = sess[x].call.arg /\ sess'[x].seen = sess[x].seen
               /\ sess'[x].at = sess[x].at /\ sess[x].call.arg \in Path
    <3>1. x # s
      BY <1>4, <1>8, <2>1
    <3> QED  BY <1>7, <1>10, <2>1, <3>1, OthersFact DEF ReadInv
  <2>2. \A q \in Path : q \notin spoiled' => file'[q] = file[q] /\ q \notin spoiled
    BY <1>5, <1>6
  <2>3. \A p \in patched' : p[1] \in Path
    BY <1>5, <1>10 DEF ReadInv
  <2>4. \A x, y \in Session :
           /\ sess'[x].at \in {"write", "fill"} /\ sess'[y].at \in {"write", "fill"}
           /\ sess'[x].call.arg = sess'[y].call.arg /\ sess'[x].call.arg \notin spoiled'
           => x = y
    BY <1>10, <2>1, <2>2 DEF ReadInv
  <2>5. \A x \in Session :
           sess'[x].call.arg \notin spoiled' =>
               /\ sess'[x].at = "write" => sess'[x].seen = file'[sess'[x].call.arg]
               /\ sess'[x].at = "fill" =>
                     \A p \in patched' : p[1] = sess'[x].call.arg => p[2] \in sess'[x].seen
    BY <1>5, <1>10, <2>1, <2>2 DEF ReadInv
  <2>6. PatchesLast'
    <3> SUFFICES ASSUME NEW p \in patched, p[1] \notin spoiled', Filling(p[1])' = {}
                 PROVE  p[2] \in file'[p[1]]
      BY <1>5 DEF PatchesLast
    <3>1. p[1] # c.arg /\ p[1] \notin spoiled /\ p[1] \in Path
      BY <1>5, <2>3
    <3>2. Filling(p[1]) = {}
      <4> SUFFICES ASSUME NEW x \in Filling(p[1]) PROVE FALSE
        OBVIOUS
      <4>1. x \in Session /\ sess[x].at = "fill" /\ sess[x].call.arg = p[1]
        BY DEF Filling
      <4>2. x # s
        BY <1>1, <1>3, <3>1, <4>1
      <4>3. sess'[x].at = "fill" /\ sess'[x].call.arg = p[1]
        BY <1>7, <4>1, <4>2, OthersFact
      <4> QED  BY <4>1, <4>3 DEF Filling
    <3> QED  BY <1>10, <2>2, <3>1, <3>2 DEF ReadInv, PatchesLast
  <2> QED  BY <2>1, <2>3, <2>4, <2>5, <2>6 DEF ReadInv
<1> QED  BY <1>9, <1>10

\* Sealing a snapshot leaves the files as they are.
LEMMA SealKeepsRead ==
    ASSUME ToolInv, NEW s \in Session, UNCHANGED <<file, patched, spoiled>>, sess[s].at \in {"seal", "copy"},
           sess'[s].at \notin {"write", "fill"},
           \A x \in Session \ {s} : /\ sess'[x].at = sess[x].at /\ sess'[x].call = sess[x].call
                                    /\ sess'[x].seen = sess[x].seen
    PROVE  ReadInv => ReadInv'
<1>1. \A path : Filling(path)' = Filling(path)
  BY DEF Filling
<1>2. \A x \in Session : sess'[x].at \in {"write", "fill"} =>
          /\ x # s /\ sess'[x].at = sess[x].at /\ sess'[x].call = sess[x].call
          /\ sess'[x].seen = sess[x].seen
  OBVIOUS
<1>3. PatchesLast => PatchesLast'
  BY <1>1 DEF PatchesLast
<1> QED  BY <1>2, <1>3 DEF ReadInv

\* A file is hashed.
LEMMA CollectKeeps ==
    ASSUME ToolInv, NEW s \in Session, CollectFiles(s)
    PROVE  (ReadInv => ReadInv') /\ (HashInv => HashInv')
<1>1. PICK t \in Object : t = sess[s]
  BY SessionFact
<1>2. PICK p : p = NextFile(s)
  OBVIOUS
<1>3. PICK u : u = [t EXCEPT !.id = [@ EXCEPT ![p] = file[p]],
                            !.at = IF LastFile(s) THEN "copy" ELSE "seal",
                            !.todo = IF LastFile(s) THEN Path ELSE @ \ {p}]
  OBVIOUS
<1>4. /\ u.at = (IF LastFile(s) THEN "copy" ELSE "seal")
      /\ u.todo = (IF LastFile(s) THEN Path ELSE t.todo \ {p})
      /\ u.id = [t.id EXCEPT ![p] = file[p]] /\ u.shaken = t.shaken
  BY <1>3 DEF Object
<1>5. /\ t.at = "seal" /\ UNCHANGED <<file, stored, patched, spoiled>>
      /\ file \in [Path -> Contents] /\ t.id \in [Path -> Contents] /\ t.todo \subseteq Path
      /\ sess'[s] = u /\ \A x \in Session \ {s} : sess'[x] = sess[x]
  BY <1>1, <1>2, <1>3 DEF CollectFiles, files, Do, ToolInv, TypeOK, Object
<1>6. ReadInv => ReadInv'
  BY <1>1, <1>4, <1>5, SealKeepsRead
<1>7. ASSUME HashInv PROVE HashInv'
  <2>1. t.todo # {} /\ p \in t.todo /\ (LastFile(s) <=> t.todo = {p})
    BY <1>1, <1>2, <1>5, <1>7 DEF HashInv, NextFile, LastFile
  <2>2. ~t.shaken => \A q \in Path \ t.todo : t.id[q] = file[q]
    BY <1>1, <1>5, <1>7 DEF HashInv
  <2>3. CASE LastFile(s)
    <3>1. ~t.shaken => u.id = file
      <4> SUFFICES ASSUME ~t.shaken PROVE u.id = file
        OBVIOUS
      <4>1. \A q \in Path : u.id[q] = file[q]
        BY <1>4, <1>5, <2>1, <2>2, <2>3
      <4> QED  BY <4>1, <1>4, <1>5
    <3>2. u.at = "copy" /\ u.todo = Path /\ Path # {} /\ u.shaken = t.shaken
      BY <1>4, <1>5, <2>1, <2>3
    <3> QED  BY <1>5, <1>7, <3>1, <3>2 DEF HashInv
  <2>4. CASE ~LastFile(s)
    <3>1. u.at = "seal" /\ u.todo = t.todo \ {p} /\ u.todo # {} /\ u.shaken = t.shaken
      BY <1>4, <2>1, <2>4
    <3>2. ~t.shaken => \A q \in Path \ u.todo : u.id[q] = file[q]
      BY <1>4, <1>5, <2>1, <2>2, <3>1
    <3> QED  BY <1>5, <1>7, <3>1, <3>2 DEF HashInv
  <2> QED  BY <2>3, <2>4
<1> QED  BY <1>6, <1>7

\* A file is copied: of a quiet workspace it is what has been hashed, also for those who copy to
\* the same directory.
LEMMA CopyKeeps ==
    ASSUME ToolInv, NEW s \in Session, CopyFiles(s)
    PROVE  (ReadInv => ReadInv') /\ (HashInv => HashInv')
<1>1. PICK t \in Object : t = sess[s]
  BY SessionFact
<1>2. PICK p : p = NextFile(s)
  OBVIOUS
<1>3. PICK e : e = Directory(t.id)
  OBVIOUS
<1>4. PICK u : u = IF LastFile(s)
                   THEN [t EXCEPT !.at = "record", !.todo = {}, !.id = Workspace, !.shaken = FALSE]
                   ELSE [t EXCEPT !.todo = @ \ {p}]
  OBVIOUS
<1>5. PICK sound \in BOOLEAN : sound = ((LastFile(s) \/ e.sound) /\ ~t.shaken)
  OBVIOUS
<1>6. PICK d : d = [e EXCEPT !.copy = [@ EXCEPT ![p] = file[p]], !.sound = sound]
  OBVIOUS
<1>7. /\ t.at = "copy" /\ UNCHANGED <<file, patched, spoiled>>
      /\ file \in [Path -> Contents] /\ t.id \in [Path -> Contents] /\ t.todo \subseteq Path
      /\ sess'[s] = u /\ \A x \in Session \ {s} : sess'[x] = sess[x]
  BY <1>1, <1>2, <1>4 DEF CopyFiles, Do, ToolInv, TypeOK, Object
<1>8. /\ e \in Snapshot /\ e.id = t.id /\ e.copy \in [Path -> Contents]
      /\ (\E x \in stored : x.id = t.id) => e \in stored
      /\ (\A x \in stored : x.id # t.id) => ~e.sound
  BY <1>3, <1>7, DirectoryFact DEF Snapshot
<1>9. Keep(d)
  BY <1>1, <1>2, <1>3, <1>5, <1>6 DEF CopyFiles, CopyOf
<1>10. /\ d.id = t.id /\ d.sound = sound /\ d.copy = [e.copy EXCEPT ![p] = file[p]]
       /\ stored' = {x \in stored : x.id # t.id} \cup {d}
  <2> DEFINE copy == [e.copy EXCEPT ![p] = file[p]]
  <2>2. d = [e EXCEPT !.copy = copy, !.sound = sound]
    BY <1>6, <1>8 DEF Snapshot
  <2>3. copy = [e.copy EXCEPT ![p] = file[p]]
    OBVIOUS
  <2> HIDE DEF copy
  <2>4. d.id = e.id /\ d.sound = sound /\ d.copy = copy
    BY <1>8, <2>2 DEF Snapshot
  <2> QED  BY <1>8, <1>9, <2>3, <2>4 DEF Keep
<1>11. /\ LastFile(s) => u.at = "record"
       /\ ~LastFile(s) => u.at = "copy" /\ u.todo = t.todo \ {p} /\ u.id = t.id /\ u.shaken = t.shaken
  BY <1>4, <1>7 DEF Object
<1>12. ReadInv => ReadInv'
  BY <1>1, <1>7, <1>11, SealKeepsRead
<1>13. ASSUME HashInv PROVE HashInv'
  <2>1. t.todo # {} /\ p \in t.todo /\ p \in Path /\ (LastFile(s) <=> t.todo = {p})
    BY <1>1, <1>2, <1>7, <1>13 DEF HashInv, NextFile, LastFile
  <2>2. \A x \in stored : x.id = t.id => x = e
    BY <1>8, <1>13 DEF HashInv
  <2>3. d.copy[p] = file[p] /\ \A q \in Path : q # p => d.copy[q] = e.copy[q]
    BY <1>8, <1>10, <2>1
  \* A session that copies the same contents to the same place.
  <2>4. ASSUME NEW x \in Session, ~sess[x].shaken, sess[x].at = "copy",
               NEW q \in Path \ sess[x].todo
        PROVE  \E y \in stored' : y.id = sess[x].id /\ y.copy[q] = y.id[q]
    <3>1. PICK y \in stored : y.id = sess[x].id /\ y.copy[q] = y.id[q]
      BY <1>13, <2>4 DEF HashInv
    <3>2. CASE sess[x].id # t.id
      BY <1>10, <3>1, <3>2
    <3>3. CASE sess[x].id = t.id
      <4>1. y = e /\ sess[x].id = file
        BY <1>13, <2>2, <2>4, <3>1, <3>3 DEF HashInv
      <4>2. d.copy[q] = d.id[q]
        BY <1>10, <2>3, <3>1, <3>3, <4>1
      <4> QED  BY <1>10, <3>3, <4>2
    <3> QED  BY <3>2, <3>3
  <2>5. \A x, y \in stored' : x.id = y.id => x = y
    BY <1>10, <1>13 DEF HashInv
  <2>6. \A y \in stored' : y.sound => y.copy = y.id
    <3> SUFFICES ASSUME d.sound PROVE d.copy = d.id
      BY <1>10, <1>13 DEF HashInv
    <3>1. ~t.shaken /\ t.id = file /\ (LastFile(s) \/ e.sound)
      BY <1>1, <1>5, <1>7, <1>10, <1>13 DEF HashInv
    <3>2. ASSUME NEW q \in Path PROVE d.copy[q] = t.id[q]
      <4>1. CASE q = p
        BY <2>3, <3>1, <4>1
      <4>2. CASE q # p /\ e.sound
        <5>1. e \in stored
          BY <1>8, <4>2
        <5> QED  BY <1>8, <1>13, <2>3, <4>2, <5>1 DEF HashInv
      <4>3. CASE q # p /\ LastFile(s)
        <5>1. q \in Path \ t.todo
          BY <2>1, <4>3
        <5>2. PICK y \in stored : y.id = t.id /\ y.copy[q] = y.id[q]
          BY <1>1, <1>7, <1>13, <3>1, <5>1 DEF HashInv
        <5> QED  BY <2>2, <2>3, <4>3, <5>2
      <4> QED  BY <3>1, <4>1, <4>2, <4>3
    <3>3. d.copy \in [Path -> Contents]
      BY <1>7, <1>8, <1>10
    <3> QED  BY <1>7, <1>10, <3>2, <3>3
  <2>7. ASSUME NEW x \in Session, ~sess'[x].shaken
        PROVE  /\ sess'[x].at = "seal" => \A q \in Path \ sess'[x].todo : sess'[x].id[q] = file'[q]
               /\ sess'[x].at = "copy" =>
                     /\ sess'[x].id = file'
                     /\ \A q \in Path \ sess'[x].todo :
                           \E y \in stored' : y.id = sess'[x].id /\ y.copy[q] = y.id[q]
    <3>1. CASE x # s
      BY <1>7, <1>13, <2>4, <2>7, <3>1 DEF HashInv
    <3>2. CASE x = s /\ LastFile(s)
      BY <1>7, <1>11, <3>2
    <3>3. CASE x = s /\ ~LastFile(s)
      <4>1. ~t.shaken /\ t.id = file /\ u.at = "copy" /\ u.todo = t.todo \ {p} /\ u.id = t.id
        BY <1>1, <1>7, <1>11, <1>13, <2>7, <3>3 DEF HashInv
      <4>2. ASSUME NEW q \in Path \ u.todo
            PROVE  \E y \in stored' : y.id = u.id /\ y.copy[q] = y.id[q]
        <5>1. CASE q = p
          BY <1>10, <2>3, <4>1, <5>1
        <5>2. CASE q # p
          BY <1>1, <1>7, <2>4, <4>1, <4>2, <5>2
        <5> QED  BY <5>1, <5>2
      <4> QED  BY <1>7, <3>3, <4>1, <4>2
    <3> QED  BY <3>1, <3>2, <3>3
  <2>8. ASSUME NEW x \in Session, sess'[x].at \in {"seal", "copy"} PROVE sess'[x].todo # {}
    <3>1. CASE x # s
      BY <1>7, <1>13, <2>8, <3>1 DEF HashInv
    <3>2. CASE x = s
      BY <1>7, <1>11, <2>1, <2>8, <3>2
    <3> QED  BY <3>1, <3>2
  <2> QED  BY <2>5, <2>6, <2>7, <2>8 DEF HashInv
<1> QED  BY <1>12, <1>13

\* A copy that is broken off leaves a directory that is not sound.
LEMMA BreakCopyKeeps ==
    ASSUME ToolInv, NEW s \in Session, BreakCopy(s)
    PROVE  (ReadInv => ReadInv') /\ (HashInv => HashInv')
<1>1. PICK t \in Object : t = sess[s]
  BY SessionFact
<1>2. PICK p : p = NextFile(s)
  OBVIOUS
<1>3. PICK e : e = Directory(t.id)
  OBVIOUS
<1>4. PICK u : u = Report(t, "error")
  OBVIOUS
<1>5. PICK some \in SUBSET file[p] : Keep([e EXCEPT !.copy = [@ EXCEPT ![p] = some], !.sound = FALSE])
  BY <1>1, <1>2, <1>3 DEF BreakCopy
<1>6. PICK d : d = [e EXCEPT !.copy = [@ EXCEPT ![p] = some], !.sound = FALSE]
  OBVIOUS
<1>7. /\ t.at = "copy" /\ UNCHANGED <<file, patched, spoiled>>
      /\ file \in [Path -> Contents] /\ t.id \in [Path -> Contents]
  BY <1>1 DEF BreakCopy, ToolInv, TypeOK, Object
<1>8. Shaking(s, u) /\ \A x \in Session \ {s} : Beside(s, x) => sess'[x].shaken
  BY <1>1, <1>4, BesideShaken
<1>9. sess'[s] = u /\ u.at = "report"
  BY <1>4, <1>8, ReportFact DEF Shaking, Outcome
<1>10. d.id = t.id /\ ~d.sound /\ stored' = {x \in stored : x.id # t.id} \cup {d}
  <2> DEFINE copy == [e.copy EXCEPT ![p] = some]
  <2>1. e \in Snapshot /\ e.id = t.id
    BY <1>3, <1>7, DirectoryFact
  <2>2. d = [e EXCEPT !.copy = copy, !.sound = FALSE]
    BY <1>6, <2>1 DEF Snapshot
  <2>3. Keep(d)
    BY <1>5, <1>6
  <2> HIDE DEF copy
  <2>4. d.id = e.id /\ ~d.sound
    BY <2>1, <2>2 DEF Snapshot
  <2> QED  BY <2>1, <2>3, <2>4 DEF Keep
<1>11. ASSUME NEW x \in Session \ {s}
       PROVE  /\ sess'[x].at = sess[x].at /\ sess'[x].call = sess[x].call
              /\ sess'[x].seen = sess[x].seen /\ sess'[x].todo = sess[x].todo
              /\ sess'[x].id = sess[x].id /\ (sess[x].shaken => sess'[x].shaken)
  BY <1>8, OthersFact
<1>12. ReadInv => ReadInv'
  BY <1>1, <1>7, <1>9, <1>11, SealKeepsRead
<1>13. ASSUME HashInv PROVE HashInv'
  <2>1. \A x, y \in stored' : x.id = y.id => x = y
    BY <1>10, <1>13 DEF HashInv
  <2>2. \A y \in stored' : y.sound => y.copy = y.id
    BY <1>10, <1>13 DEF HashInv
  <2>3. ASSUME NEW x \in Session, ~sess'[x].shaken
        PROVE  /\ sess'[x].at = "seal" => \A q \in Path \ sess'[x].todo : sess'[x].id[q] = file'[q]
               /\ sess'[x].at = "copy" =>
                     /\ sess'[x].id = file'
                     /\ \A q \in Path \ sess'[x].todo :
                           \E y \in stored' : y.id = sess'[x].id /\ y.copy[q] = y.id[q]
    <3>1. CASE x = s
      BY <1>9, <3>1
    <3>2. CASE x # s
      <4>1. ~sess[x].shaken /\ (sess[x].at = "copy" => sess[x].id # t.id)
        BY <1>1, <1>8, <1>11, <2>3, <3>2 DEF Beside
      <4>2. sess[x].at = "seal" => \A q \in Path \ sess[x].todo : sess[x].id[q] = file[q]
        BY <1>13, <4>1 DEF HashInv
      <4>3. sess[x].at = "copy" =>
               /\ sess[x].id = file
               /\ \A q \in Path \ sess[x].todo :
                     \E y \in stored : y.id = sess[x].id /\ y.copy[q] = y.id[q]
        BY <1>13, <4>1 DEF HashInv
      <4> QED  BY <1>7, <1>10, <1>11, <3>2, <4>1, <4>2, <4>3
    <3> QED  BY <3>1, <3>2
  <2>4. \A x \in Session : sess'[x].at \in {"seal", "copy"} => sess'[x].todo # {}
    BY <1>9, <1>11, <1>13 DEF HashInv
  <2> QED  BY <2>1, <2>2, <2>3, <2>4 DEF HashInv
<1> QED  BY <1>12, <1>13

LEMMA WorkspaceStep ==
    ASSUME ToolInv, ReadInv, HashInv, [Next]_vars
    PROVE  ReadInv' /\ HashInv'
<1>1. CASE Next
  BY <1>1, StepShape, QuietKeeps, RunKeeps, WriteKeeps, FillKeeps, CollectKeeps, CopyKeeps,
     BreakFillKeeps, BreakCopyKeeps
<1>2. CASE UNCHANGED vars
  BY <1>2 DEF vars, ReadInv, HashInv, PatchesLast, Filling
<1> QED  BY <1>1, <1>2

LEMMA WorkspaceInit == Init => ReadInv /\ HashInv
BY DEF Init, Fresh, ReadInv, HashInv, PatchesLast

\* No patch is undone by another as long as no two writes of its file overlap and none is cut
\* short, for any sessions, paths and calls (tool_adapter.py:117-120).
THEOREM PatchesAlwaysLast == Spec => []PatchesLast
<1>1. ReadInv => PatchesLast
  BY DEF ReadInv
<1> QED  BY <1>1, ToolInvariant, WorkspaceInit, WorkspaceStep, PTL DEF Spec

\* What is stored under a snapshot's id is what the id was computed from, unless the workspace
\* was written in between or a copy was broken off (snapshot.py:36-47, 120-126).
THEOREM QuietSnapshotsAlwaysExact == Spec => []QuietSnapshotsExact
<1>1. HashInv => QuietSnapshotsExact
  BY DEF HashInv, QuietSnapshotsExact
<1> QED  BY <1>1, ToolInvariant, WorkspaceInit, WorkspaceStep, PTL DEF Spec
-----------------------------------------------------------------------------
(***************************************************************************)
(* The end-to-end script.  Whatever it goes through, it does nothing with  *)
(* the sessions that their adapter would not do: ToolLoop implements       *)
(* ToolSession, and what holds of all sessions holds of those it runs.     *)
(***************************************************************************)
LEMMA ScenarioFact ==
    /\ Len(Scenario) \in Nat \ {0} /\ DOMAIN Scenario = 1..Len(Scenario)
    /\ \A i \in DOMAIN Scenario : Scenario[i].kind \in Kinds /\ Scenario[i].session \in Session
<1> DEFINE S == [kind : Kinds, session : Session]
<1>1. Scenario \in Seq(S) /\ Scenario # <<>>
  BY ScenarioAssumption
<1>2. \A e \in S : e.kind \in Kinds /\ e.session \in Session
  OBVIOUS
<1> HIDE DEF S
<1>3. \A i \in DOMAIN Scenario : Scenario[i] \in S
  BY <1>1
<1>4. Len(Scenario) \in Nat \ {0} /\ DOMAIN Scenario = 1..Len(Scenario)
  BY <1>1
<1> QED  BY <1>2, <1>3, <1>4

LEMMA ScriptFact ==
    ASSUME NEW kind \in Kinds
    PROVE  Len(Script(kind)) \in Nat \ {0} /\ DOMAIN Script(kind) = 1..Len(Script(kind))
<1>1. Script(kind) \in {<<ReadHello, Ask("list_files", "**/*.txt"), Ask("register_artifact", "hello.txt")>>,
                       <<ReadHello, ReadHello, ReadHello>>, <<ReadHello>>, <<Ask("shell", "whoami")>>}
  BY DEF Script, Kinds
<1>2. ASSUME NEW a, NEW b, NEW c
      PROVE  /\ Len(<<a, b, c>>) = 3 /\ DOMAIN <<a, b, c>> = 1..3
             /\ Len(<<a>>) = 1 /\ DOMAIN <<a>> = 1..1
  OBVIOUS
<1> QED  BY <1>1, <1>2

\* Where the driver is: a call it asks for is one that the session's agent makes.
LEMMA AskedIsCall ==
    ASSUME LoopInv
    PROVE  /\ Kind \in Kinds /\ Mine \in Session
           /\ Len(Script(Kind)) \in Nat \ {0} /\ Len(Scenario) \in Nat /\ driver.turn \in 1..Len(Scenario)
           /\ driver.at = "ask" => Script(Kind)[driver.asked + 1] \in Call[Mine]
<1>0. driver.turn \in DOMAIN Scenario /\ driver.asked \in Nat
  BY DEF LoopInv, Driver
<1>1. driver.turn \in 1..Len(Scenario) /\ Len(Scenario) \in Nat
  BY <1>0, ScenarioFact
<1>2. Kind \in Kinds /\ Mine \in Session
  BY <1>0, ScenarioFact DEF Kind, Mine
<1>3. ASSUME driver.at = "ask"
      PROVE  Script(Kind)[driver.asked + 1] \in Call[Mine]
  <2>1. driver.asked + 1 \in DOMAIN Script(Kind)
    BY <1>0, <1>2, <1>3, ScriptFact DEF LoopInv
  <2> QED  BY <1>0, <2>1, ScenarioAssumption DEF Kind, Mine
<1>4. Len(Script(Kind)) \in Nat \ {0}
  BY <1>2, ScriptFact
<1> QED  BY <1>1, <1>2, <1>3, <1>4

LEMMA LoopInitGood == LoopInit => Init /\ LoopInv
<1> SUFFICES ASSUME LoopInit
             PROVE  Init /\ LoopInv
  OBVIOUS
<1>1. /\ driver.turn = 1 /\ driver.asked = 0 /\ driver.at \in {"off", "open"}
      /\ driver.made = 0 /\ driver.failed = {} /\ driver.report = "none"
      /\ \E a \in {"off", "open"} : driver = [Off EXCEPT !.at = a]
  BY DEF LoopInit, Off
<1>2. 1 \in DOMAIN Scenario
  BY ScenarioFact
<1>4. Kind \in Kinds
  BY <1>1, <1>2, ScenarioFact DEF Kind
<1>5. driver \in Driver
  BY <1>1, <1>2 DEF Off, Driver
<1>6. Len(Script(Kind)) \in Nat \ {0}
  BY <1>4, ScriptFact
<1> QED  BY <1>1, <1>5, <1>6 DEF LoopInv, LoopInit

\* A step that closes the scenario, or goes on with it within its calls, leaves the driver
\* where it may be.
LEMMA CloseKeeps ==
    ASSUME LoopInv, NEW ok \in BOOLEAN, driver' = Close(ok)
    PROVE  LoopInv'
<1>0. driver \in Driver /\ driver.turn \in 1..Len(Scenario) /\ Len(Scenario) \in Nat /\ Kind \in Kinds
      /\ DOMAIN Scenario = 1..Len(Scenario)
  BY AskedIsCall, ScenarioFact DEF LoopInv
<1>d. PICK d \in Driver : d = driver
  BY <1>0
<1>k. PICK k \in Kinds : k = Kind
  BY <1>0
<1>1. /\ driver' \in Driver /\ driver'.asked = 0 /\ driver'.at # "ask"
  <2>1. PICK a \in {"report", "open"} : a = IF d.turn = Len(Scenario) THEN "report" ELSE "open"
    OBVIOUS
  <2>2. PICK n \in DOMAIN Scenario : n = IF d.turn = Len(Scenario) THEN d.turn ELSE d.turn + 1
    BY <1>0, <1>d
  <2>3. PICK f \in SUBSET Kinds : f = IF ok THEN d.failed ELSE d.failed \cup {k}
    BY DEF Driver
  <2>4. driver' = [d EXCEPT !.at = a, !.turn = n, !.asked = 0, !.made = 0, !.failed = f]
    BY <1>d, <1>k, <2>1, <2>2, <2>3 DEF Close
  <2>5. PICK e \in Driver : e = [d EXCEPT !.at = a, !.turn = n, !.asked = 0, !.made = 0, !.failed = f]
    BY DEF Driver
  <2>6. e.asked = 0 /\ e.at = a
    BY <2>5 DEF Driver
  <2> QED  BY <2>4, <2>5, <2>6
<1>2. driver'.turn \in DOMAIN Scenario
  BY <1>1 DEF Driver
<1>4. Kind' \in Kinds
  BY <1>2, ScenarioFact DEF Kind
<1>5. Len(Script(Kind')) \in Nat
  BY <1>4, ScriptFact
<1>6. Len(Script(Kind))' = Len(Script(Kind'))
  BY DEF Script, Ask, ReadHello
<1> QED  BY <1>1, <1>5, <1>6 DEF LoopInv, Driver

LEMMA GoOnKeeps ==
    ASSUME LoopInv, driver' \in Driver, driver'.turn = driver.turn,
           driver'.asked <= Len(Script(Kind)), driver'.at # "open",
           driver'.at = "ask" => driver'.asked < Len(Script(Kind))
    PROVE  LoopInv'
<1>1. Kind' = Kind
  BY DEF Kind
<1>2. Script(Kind)' = Script(Kind)
  BY <1>1 DEF Script
<1> QED  BY <1>2 DEF LoopInv, Driver

\* Every step of the script is one of a session, or none of the adapter's.
LEMMA LoopStep ==
    ASSUME LoopInv, [LoopNext]_loopVars
    PROVE  LoopInv' /\ [Next]_vars
<1>0. /\ driver \in Driver /\ Kind \in Kinds /\ Mine \in Session /\ Len(Script(Kind)) \in Nat \ {0}
      /\ driver.asked <= Len(Script(Kind))
  BY AskedIsCall DEF LoopInv, Driver
<1>raise. ASSUME driver' = Raise
          PROVE  LoopInv'
  <2>1. CASE Kind = "agent"
    BY <1>raise, <2>1, CloseKeeps DEF Raise
  <2>2. CASE Kind # "agent"
    <3>1. driver' = [driver EXCEPT !.at = "dead"]
      BY <1>raise, <2>2 DEF Raise
    <3> QED  BY <1>0, <3>1, GoOnKeeps DEF Driver
  <2> QED  BY <2>1, <2>2
<1>open. CASE Open
  <2>1. CASE driver' = [driver EXCEPT !.at = "ask"]
    <3>1. driver'.asked = 0 /\ driver'.at = "ask" /\ driver'.turn = driver.turn /\ driver' \in Driver
      BY <1>0, <1>open, <2>1 DEF Open, LoopInv, Driver
    <3>2. LoopInv'
      BY <1>0, <3>1, GoOnKeeps
    <3> QED  BY <1>0, <1>open, <3>2 DEF Open, Next
  <2>2. CASE driver' # [driver EXCEPT !.at = "ask"]
    <3>1. driver' = Raise
      BY <1>open, <2>2 DEF Open
    <3> QED  BY <1>0, <1>raise, <1>open, <3>1 DEF Open, Next
  <2> QED  BY <2>1, <2>2
<1>ask. ASSUME NEW late \in BOOLEAN, AskNext(late)
        PROVE  LoopInv' /\ [Next]_vars
  <2>1. /\ BeginCall(Mine, Script(Kind)[driver.asked + 1], late)
        /\ driver' = [driver EXCEPT !.at = "wait", !.asked = @ + 1]
        /\ driver.at = "ask"
    BY <1>ask DEF AskNext
  <2>2. Script(Kind)[driver.asked + 1] \in Call[Mine] /\ driver.asked < Len(Script(Kind))
    BY <2>1, AskedIsCall DEF LoopInv
  <2>3. driver' \in Driver /\ driver'.turn = driver.turn /\ driver'.at = "wait"
        /\ driver'.asked = driver.asked + 1 /\ driver.asked \in Nat
    <3>1. driver.asked \in Nat /\ driver.asked + 1 \in Nat
      BY <1>0 DEF Driver
    <3> QED  BY <1>0, <2>1, <3>1 DEF Driver
  <2>4. LoopInv'
    BY <1>0, <2>2, <2>3, GoOnKeeps
  <2> QED  BY <1>0, <2>1, <2>2, <2>4 DEF Next
<1>stays. ASSUME UNCHANGED driver
          PROVE  LoopInv'
  BY <1>stays, GoOnKeeps DEF LoopInv, Driver, Kind, Script
<1>work. CASE Work
  <2>1. LoopInv'
    BY <1>stays, <1>work DEF Work
  <2> QED  BY <1>0, <1>work, <2>1 DEF Work, Next
<1>hear. CASE Hear
  <2>1. UNCHANGED vars
    BY <1>hear DEF Hear
  <2>2. \/ \E ok \in BOOLEAN : driver' = Close(ok)
        \/ driver' = Raise
        \/ \E a \in {"ask", "complete"} :
              /\ driver' = [driver EXCEPT !.at = a, !.made = Made] \/ driver' = [driver EXCEPT !.at = a]
              /\ a = "ask" => ~Last
    BY <1>hear DEF Hear
  <2>3. ASSUME NEW ok \in BOOLEAN, driver' = Close(ok)
        PROVE  LoopInv'
    BY <2>3, CloseKeeps
  <2>4. ASSUME NEW a \in {"ask", "complete"}, a = "ask" => ~Last,
               driver' = [driver EXCEPT !.at = a, !.made = Made] \/ driver' = [driver EXCEPT !.at = a]
        PROVE  LoopInv'
    <3>1. Made \in Nat
      BY <1>0 DEF Made, Driver
    <3>2. /\ driver' \in Driver /\ driver'.turn = driver.turn /\ driver'.asked = driver.asked
          /\ driver'.at = a /\ driver.asked \in Nat
      BY <1>0, <2>4, <3>1 DEF Driver
    <3>3. a = "ask" => driver.asked < Len(Script(Kind))
      BY <1>0, <2>4, <3>2 DEF Last
    <3> QED  BY <1>0, <3>2, <3>3, GoOnKeeps
  <2> QED  BY <1>raise, <2>1, <2>2, <2>3, <2>4
<1>complete. CASE CompleteMine
  <2>1. driver' = [driver EXCEPT !.at = "check"] /\ Complete(Mine)
    BY <1>complete DEF CompleteMine
  <2>2. LoopInv'
    BY <1>0, <2>1, GoOnKeeps DEF Driver
  <2> QED  BY <1>0, <2>1, <2>2 DEF Next
<1>check. CASE Check
  <2>1. UNCHANGED vars /\ (driver' = Raise \/ driver' = Close(FourChannels))
    BY <1>check DEF Check
  <2>2. FourChannels \in BOOLEAN
    BY DEF FourChannels
  <2> QED  BY <1>raise, <2>1, <2>2, CloseKeeps
<1>report. CASE WriteReport
  <2>1. /\ UNCHANGED vars /\ driver.at = "report"
        /\ \E r \in {"PASS", "FAIL"} : driver' = [driver EXCEPT !.report = r]
    BY <1>report DEF WriteReport
  <2>2. driver' \in Driver /\ driver'.turn = driver.turn /\ driver'.asked = driver.asked /\ driver'.at = "report"
    BY <1>0, <2>1 DEF Driver
  <2>3. LoopInv'
    BY <1>0, <2>2, GoOnKeeps
  <2> QED  BY <2>1, <2>3
<1>free. CASE Free /\ UNCHANGED driver
  <2>1. LoopInv'
    BY <1>stays, <1>free
  <2> QED  BY <1>free, <2>1 DEF Free, Next
<1>same. CASE UNCHANGED loopVars
  BY <1>stays, <1>same DEF loopVars
<1> QED
  BY <1>open, <1>ask, <1>work, <1>hear, <1>complete, <1>check, <1>report, <1>free, <1>same
     DEF LoopNext, Drive

\* The script, or agents with sessions of their own in its place, take no step that the
\* adapter does not allow: ToolLoop implements ToolSession (phase7_tool_loop_e2e.py:56-240).
THEOREM LoopImplementsSession == LoopSpec => Spec
<1>1. LoopSpec => Init /\ [][Next]_vars
  BY LoopInitGood, LoopStep, PTL DEF LoopSpec
<1> QED  BY <1>1 DEF Spec

\* And therefore the accounts of the sessions that the script reports on agree.
THEOREM LoopAccountsAgree == LoopSpec => []SessionAccounts
BY LoopImplementsSession, AccountsAlwaysAgree, PTL
-----------------------------------------------------------------------------
(***************************************************************************)
(* Why the verdict is right.  A step of the session under way, in what the *)
(* verdict depends on; then what it does to a scenario; then the script.   *)
(***************************************************************************)
LEMMA MainFact ==
    ASSUME NEW i \in DOMAIN Scenario, NEW s, s = Scenario[i].session
    PROVE  /\ s \in Session /\ Budget[s] \in Nat
           /\ "read" \in Profile[s].tools /\ "hello.txt" \in Profile[s].read \ Outside
           /\ Scenario[i].kind = "agent" => Budget[s] >= 3
           /\ Scenario[i].kind = "max_rounds" => Budget[s] = 2
           /\ Scenario[i].kind = "illegal" => Budget[s] >= 1
           /\ \A j \in DOMAIN Scenario :
                 /\ Scenario[j].session = s => j = i
                 /\ j < i /\ Scenario[i].kind = "agent" => Scenario[j].kind = "agent"
<1>1. s \in Session /\ Budget[s] \in Nat
  BY ScenarioFact, ToolAssumption
<1> QED  BY <1>1, MainAssumption

\* The calls of the scripts are reads, and the one of a tool that there is not.
LEMMA ScriptCalls ==
    ASSUME NEW k \in Kinds
    PROVE  /\ Len(Script(k)) = IF k \in {"agent", "max_rounds"} THEN 3 ELSE 1
           /\ \A n \in 1..Len(Script(k)) :
                 LET c == Script(k)[n] IN
                 IF k = "illegal" THEN c.tool = "shell"
                 ELSE /\ c.tool \in {"read_file", "list_files", "register_artifact"}
                      /\ c.tool # "list_files" => c.arg = "hello.txt"
<1>1. ASSUME NEW a, NEW b, NEW c
      PROVE  /\ Len(<<a, b, c>>) = 3 /\ <<a, b, c>>[1] = a /\ <<a, b, c>>[2] = b /\ <<a, b, c>>[3] = c
             /\ Len(<<a>>) = 1 /\ <<a>>[1] = a
  OBVIOUS
<1> DEFINE A1 == ReadHello
           A2 == Ask("list_files", "**/*.txt")
           A3 == Ask("register_artifact", "hello.txt")
           A4 == Ask("shell", "whoami")
<1>2. /\ A1.tool = "read_file" /\ A1.arg = "hello.txt" /\ A2.tool = "list_files"
      /\ A3.tool = "register_artifact" /\ A3.arg = "hello.txt" /\ A4.tool = "shell"
  BY DEF Ask, ReadHello
<1>3. /\ k = "agent" => Script(k) = <<A1, A2, A3>>
      /\ k = "max_rounds" => Script(k) = <<A1, A1, A1>>
      /\ k = "timeout" => Script(k) = <<A1>>
      /\ k = "illegal" => Script(k) = <<A4>>
  BY DEF Script
<1> HIDE DEF A1, A2, A3, A4
<1>4. CASE k = "agent"
  <2>1. Script(k) = <<A1, A2, A3>> /\ Len(Script(k)) = 3
    BY <1>1, <1>3, <1>4
  <2>2. \A n \in 1..3 : n = 1 \/ n = 2 \/ n = 3
    OBVIOUS
  <2> QED  BY <1>1, <1>2, <1>4, <2>1, <2>2
<1>5. CASE k = "max_rounds"
  <2>1. Script(k) = <<A1, A1, A1>> /\ Len(Script(k)) = 3
    BY <1>1, <1>3, <1>5
  <2>2. \A n \in 1..3 : n = 1 \/ n = 2 \/ n = 3
    OBVIOUS
  <2> QED  BY <1>1, <1>2, <1>5, <2>1, <2>2
<1>6. CASE k = "timeout"
  <2>1. Script(k) = <<A1>> /\ Len(Script(k)) = 1
    BY <1>1, <1>3, <1>6
  <2>2. \A n \in 1..1 : n = 1
    OBVIOUS
  <2> QED  BY <1>1, <1>2, <1>6, <2>1, <2>2
<1>7. CASE k = "illegal"
  <2>1. Script(k) = <<A4>> /\ Len(Script(k)) = 1
    BY <1>1, <1>3, <1>7
  <2>2. \A n \in 1..1 : n = 1
    OBVIOUS
  <2> QED  BY <1>1, <1>2, <1>7, <2>1, <2>2
<1> QED  BY <1>4, <1>5, <1>6, <1>7 DEF Kinds

\* And every agent of the registry may make these reads.
LEMMA ReadsPermitted ==
    ASSUME NEW i \in DOMAIN Scenario, NEW s, s = Scenario[i].session, NEW c,
           c.tool \in {"read_file", "list_files", "register_artifact"},
           c.tool # "list_files" => c.arg = "hello.txt"
    PROVE  Permitted(s, c) /\ c.tool \in Tools /\ c.tool \notin Writes
<1>1. c.tool \in Reads /\ c.tool \in Tools /\ c.tool \notin Writes \cup Commands /\ c.tool # "seal_snapshot"
  BY DEF Reads, Writes, Commands, Tools
<1>2. Capability(c.tool) = "read"
  BY <1>1 DEF Capability
<1>3. RequireTool(s, c.tool)
  BY <1>1, <1>2, MainFact DEF RequireTool
<1>4. c.tool # "list_files" => AuthorizePath(s, c)
  BY <1>2, MainFact DEF AuthorizePath
<1> QED  BY <1>1, <1>3, <1>4 DEF Permitted, Writes

-----------------------------------------------------------------------------
\* The sessions but s, in what the verdict depends on; and what has been raised stays raised.
Elsewhere(s) ==
    /\ \A x \in Session \ {s} :
          /\ sess'[x].at = sess[x].at /\ sess'[x].status = sess[x].status
          /\ sess'[x].rounds = sess[x].rounds /\ sess'[x].outcome = sess[x].outcome
          /\ log'[x] = log[x] /\ expired'[x] = expired[x]
          /\ executed'[x] = executed[x] /\ botched'[x] = botched[x]
    /\ faults \in Nat /\ faults' \in Nat /\ faults <= faults'

\* A step of session s: either it raises, or it goes on, with u, l and ex afterwards.
Failing(s) ==
    /\ faults' = faults + 1 /\ executed' = executed
    /\ log'[s]["tool_call_denied"] = log[s]["tool_call_denied"] \/ sess[s].at = "refuse"
    /\ sess[s].at # "idle" /\ sess'[s].outcome = "error"
    /\ sess'[s].at \in IF sess[s].at = "end" THEN {"idle"} ELSE {"report", "idle"}
    /\ sess'[s].status = sess[s].status

Became(u, at, status, rounds, outcome) ==
    /\ u.at = at /\ u.status = status /\ u.rounds = rounds /\ u.outcome = outcome

GoesOn(s) ==
    LET t == sess[s]
        u == sess'[s]
        To(at) == Became(u, at, t.status, t.rounds, t.outcome) /\ u.call = t.call
        Taken(outcome) == Became(u, "report", t.status, t.rounds + 1, outcome)
        Counts1(event) == log'[s] = CountedIn(log[s], event)
    IN
    /\ faults' = faults /\ botched' = botched
    /\ \/ /\ t.at = "request" /\ log' = log /\ executed' = executed
          /\ To(IF t.call.tool \in Tools THEN "allow" ELSE "refuse")
       \/ /\ t.at = "refuse" /\ Counts1("tool_call_denied") /\ executed' = executed
          /\ IF t.status = "active" THEN Became(u, "end", "denied", t.rounds, t.outcome)
             ELSE Became(u, "idle", t.status, t.rounds, t.outcome)
       \/ /\ t.at = "allow" /\ Counts1("tool_call_allowed") /\ executed' = executed
          /\ To("run")
       \/ /\ t.at = "end" /\ Counts1("tool_session_completed") /\ executed' = executed
          /\ Became(u, "idle", t.status, t.rounds, t.outcome)
       \/ /\ t.at = "run" /\ log' = log
          /\ IF Permitted(s, t.call) THEN To("record") /\ executed'[s] = executed[s] + 1
             ELSE To("deny") /\ executed' = executed
       \/ t.at = "deny" /\ log' = log /\ executed' = executed /\ Taken("denied")
       \/ /\ t.at \in {"record", "register"} /\ log' = log /\ executed' = executed
          /\ To("register") \/ Taken("success")
       \/ /\ t.at = "report" /\ Counts1("tool_call_completed") /\ executed' = executed
          /\ Became(u, "idle", t.status, t.rounds, t.outcome)

LEMMA CountedFact ==
    ASSUME NEW l \in [Event -> Nat], NEW event, event # "tool_call_denied"
    PROVE  CountedIn(l, event)["tool_call_denied"] = l["tool_call_denied"]
BY DEF CountedIn, Event

\* What an append does to the sessions: nothing to the others, and one of two things to its own.
LEMMA EmitShape ==
    ASSUME ToolInv, NEW s \in Session, NEW event, NEW next, NEW raised, Emit(s, event, next, raised)
    PROVE  /\ Elsewhere(s) /\ expired' = expired /\ botched' = botched /\ executed' = executed
           /\ event \notin Event => log' = log
           /\ log'[s] = log[s] \/ log'[s] = CountedIn(log[s], event)
           /\ \/ sess'[s] = next /\ faults' = faults /\ log'[s] = CountedIn(log[s], event)
              \/ sess'[s] = raised /\ faults' = faults + 1
<1>1. /\ sess \in [Session -> Object] /\ log \in [Session -> [Event -> Nat]] /\ faults \in 0..MaxFaults
      /\ MaxFaults \in Nat
  BY ToolAssumption DEF ToolInv, TypeOK, Object
<1>c. Counted(s, event) = [log EXCEPT ![s] = CountedIn(log[s], event)]
      /\ (event \notin Event => Counted(s, event) = log)
  BY <1>1 DEF Counted, CountedIn
<1>2. /\ UNCHANGED <<expired, executed, botched>>
      /\ log' \in {log, Counted(s, event)}
      /\ \/ sess' = [sess EXCEPT ![s] = next] /\ faults' = faults /\ log' = Counted(s, event)
         \/ sess' = [sess EXCEPT ![s] = raised] /\ faults' = faults + 1
  BY DEF Emit, Logged, Raises, Fault, Do
<1>3. \A x \in Session \ {s} : sess'[x] = sess[x] /\ log'[x] = log[x]
  BY <1>1, <1>2, <1>c
<1>4. /\ event \notin Event => log' = log
      /\ log'[s] = log[s] \/ log'[s] = CountedIn(log[s], event)
      /\ \/ sess'[s] = next /\ faults' = faults /\ log'[s] = CountedIn(log[s], event)
         \/ sess'[s] = raised /\ faults' = faults + 1
  BY <1>1, <1>2, <1>c
<1>5. faults \in Nat /\ faults' \in Nat /\ faults <= faults'
  BY <1>1, <1>2
<1> QED  BY <1>2, <1>3, <1>4, <1>5 DEF Elsewhere

\* A tool that raises, and the report of a call.
LEMMA BreakShape ==
    ASSUME ToolInv, NEW s \in Session, Break(s)
    PROVE  Elsewhere(s) /\ expired' = expired /\ Failing(s)
<1>1. /\ sess \in [Session -> Object] /\ faults \in 0..MaxFaults /\ MaxFaults \in Nat
      /\ sess[s] \in Object
  BY ToolAssumption DEF ToolInv, TypeOK, Object
<1> DEFINE u == Report(sess[s], "error")
<1>2. /\ sess' = [sess EXCEPT ![s] = u] /\ faults' = faults + 1 /\ faults < MaxFaults
      /\ UNCHANGED <<log, botched, expired, executed>> /\ sess[s].at \in {"run", "write", "seal", "copy"}
  BY DEF Break, Fault, Do
<1>3. u.at = "report" /\ u.status = sess[s].status /\ u.outcome = "error"
  BY <1>1, ReportFact DEF Outcome
<1> HIDE DEF u
<1>4. sess'[s] = u /\ \A x \in Session \ {s} : sess'[x] = sess[x]
  BY <1>1, <1>2
<1>5. faults \in Nat /\ faults' \in Nat /\ faults <= faults'
  BY <1>1, <1>2
<1> QED  BY <1>2, <1>3, <1>4, <1>5 DEF Elsewhere, Failing

LEMMA ReportCallShape ==
    ASSUME ToolInv, NEW s \in Session, ReportCall(s)
    PROVE  Elsewhere(s) /\ expired' = expired /\ (Failing(s) \/ GoesOn(s))
<1> DEFINE t == sess[s]
           told == [t EXCEPT !.calls = @ + 1]
           u == Leave(told, t.outcome)
           v == IF t.outcome = "success" THEN Report(t, "error") ELSE Leave(t, "error")
           more == botched[s] + 1
<1>1. /\ sess \in [Session -> Object] /\ faults \in 0..MaxFaults /\ MaxFaults \in Nat
      /\ log \in [Session -> [Event -> Nat]] /\ botched \in [Session -> Nat]
      /\ t \in Object /\ t.at = "report" /\ t.outcome \in Outcome /\ t.calls \in Nat
  BY ToolAssumption, SessionFact DEF ToolInv, TypeOK, Object, ReportCall
<1>2. /\ UNCHANGED <<expired, executed>>
      /\ \/ sess' = [sess EXCEPT ![s] = u] /\ faults' = faults /\ botched' = botched
            /\ log' = Counted(s, "tool_call_completed")
         \/ sess' = [sess EXCEPT ![s] = v] /\ faults' = faults + 1
            /\ log' \in {log, Counted(s, "tool_call_completed")} /\ botched' = [botched EXCEPT ![s] = more]
  BY DEF ReportCall, Logged, Raises, Fault, Do
<1>c. Counted(s, "tool_call_completed") = [log EXCEPT ![s] = CountedIn(log[s], "tool_call_completed")]
  BY <1>1 DEF Counted, CountedIn
<1>d. CountedIn(log[s], "tool_call_completed")["tool_call_denied"] = log[s]["tool_call_denied"]
  BY <1>1, CountedFact
<1>3. u.at = "idle" /\ u.status = t.status /\ u.rounds = t.rounds /\ u.outcome = t.outcome
  <2> DEFINE n == t.calls + 1
  <2>0. told = [t EXCEPT !.calls = n] /\ n \in Nat
    BY <1>1
  <2> HIDE DEF n, told
  <2>1. told \in Object /\ told.status = t.status /\ told.rounds = t.rounds
    BY <1>1, <2>0 DEF Object
  <2> HIDE DEF told
  <2> QED  BY <1>1, <2>1, LeaveFact
<1>4. v.at \in {"report", "idle"} /\ v.status = t.status /\ v.outcome = "error"
  <2>1. \A w \in {Report(t, "error"), Leave(t, "error")} :
            w.at \in {"report", "idle"} /\ w.status = t.status /\ w.outcome = "error"
    BY <1>1, LeaveFact, ReportFact DEF Outcome
  <2> QED  BY <2>1
<1> HIDE DEF t, u, v, told, more
<1>5. /\ \A x \in Session \ {s} : sess'[x] = sess[x] /\ log'[x] = log[x] /\ botched'[x] = botched[x]
      /\ \/ sess'[s] = u /\ faults' = faults /\ botched' = botched
            /\ log'[s] = CountedIn(log[s], "tool_call_completed")
         \/ sess'[s] = v /\ faults' = faults + 1
            /\ (log'[s] = log[s] \/ log'[s] = CountedIn(log[s], "tool_call_completed"))
  BY <1>1, <1>2, <1>c
<1>6. faults \in Nat /\ faults' \in Nat /\ faults <= faults'
  BY <1>1, <1>2
<1>7. Elsewhere(s)
  BY <1>2, <1>5, <1>6 DEF Elsewhere
<1>8. CASE sess'[s] = u /\ faults' = faults /\ botched' = botched
           /\ log'[s] = CountedIn(log[s], "tool_call_completed")
  BY <1>1, <1>2, <1>3, <1>7, <1>8 DEF GoesOn, Became, t
<1>9. CASE /\ sess'[s] = v /\ faults' = faults + 1
           /\ log'[s] = log[s] \/ log'[s] = CountedIn(log[s], "tool_call_completed")
  BY <1>1, <1>2, <1>4, <1>7, <1>9, <1>d DEF Failing, t
<1> QED  BY <1>5, <1>8, <1>9

\* What a run does that is no write.
LEMMA RunShape ==
    ASSUME ToolInv, NEW s \in Session, Run(s), sess[s].call.tool \notin Writes
    PROVE  Elsewhere(s) /\ expired' = expired /\ GoesOn(s)
<1> DEFINE t == sess[s]
           d == [t EXCEPT !.at = "deny"]
           r == [t EXCEPT !.at = "record"]
           more == executed[s] + 1
<1>1. /\ sess \in [Session -> Object] /\ faults \in Nat /\ executed \in [Session -> Nat]
      /\ t \in Object /\ t.at = "run"
  BY ToolAssumption DEF ToolInv, TypeOK, Object, Run
<1>2. UNCHANGED <<log, expired, botched, faults>>
  BY DEF Run
<1>3. IF Permitted(s, t.call) THEN sess' = [sess EXCEPT ![s] = r] /\ executed' = [executed EXCEPT ![s] = more]
      ELSE sess' = [sess EXCEPT ![s] = d] /\ executed' = executed
  BY DEF Run, Do, TakeEffect
<1>4. /\ d.at = "deny" /\ d.status = t.status /\ d.rounds = t.rounds /\ d.outcome = t.outcome /\ d.call = t.call
      /\ r.at = "record" /\ r.status = t.status /\ r.rounds = t.rounds /\ r.outcome = t.outcome
      /\ r.call = t.call
  BY <1>1 DEF Object
<1> HIDE DEF t, d, r, more
<1>5. /\ \A x \in Session \ {s} : sess'[x] = sess[x] /\ executed'[x] = executed[x]
      /\ IF Permitted(s, t.call) THEN sess'[s] = r /\ executed'[s] = more
         ELSE sess'[s] = d /\ executed' = executed
  BY <1>1, <1>3
<1>6. Elsewhere(s)
  BY <1>1, <1>2, <1>5 DEF Elsewhere
<1>7. GoesOn(s)
  BY <1>1, <1>2, <1>4, <1>5 DEF GoesOn, Became, t, more
<1> QED  BY <1>2, <1>6, <1>7

\* A session that writes nothing raises or goes on, and leaves the others alone.
LEMMA StepFact ==
    ASSUME ToolInv, NEW s \in Session, SessionStep(s), sess[s].at \notin {"write", "fill", "seal", "copy"},
           sess[s].at = "run" => sess[s].call.tool \notin Writes
    PROVE  Elsewhere(s) /\ expired' = expired /\ (Failing(s) \/ GoesOn(s))
<1> DEFINE t == sess[s]
<1>1. t \in Object /\ t.outcome \in Outcome /\ t.rounds \in Nat /\ log[s] \in [Event -> Nat]
  BY SessionFact
<1>2. /\ "error" \in Outcome /\ "success" \in Outcome /\ "denied" \in Outcome
      /\ "denied" \in Status
  BY DEF Outcome, Status
<1>l. \A o \in Outcome : /\ Leave(t, o).at = "idle" /\ Leave(t, o).status = t.status
                         /\ Leave(t, o).rounds = t.rounds /\ Leave(t, o).outcome = o
  BY <1>1, LeaveFact
<1>p. \A o \in Outcome : /\ Report(t, o).at = "report" /\ Report(t, o).status = t.status
                         /\ Report(t, o).rounds = t.rounds + 1 /\ Report(t, o).outcome = o
  BY <1>1, ReportFact
<1>a. ASSUME NEW a
      PROVE  LET w == [t EXCEPT !.at = a] IN
             /\ w.at = a /\ w.status = t.status /\ w.rounds = t.rounds /\ w.outcome = t.outcome
             /\ w.call = t.call
  BY <1>1 DEF Object
<1>e. LET w == End(t, "denied") IN
      IF t.status = "active" THEN Became(w, "end", "denied", t.rounds, t.outcome)
      ELSE Became(w, "idle", t.status, t.rounds, t.outcome)
  BY <1>1, <1>2, EndFact DEF Became
<1>r. ASSUME t.at # "idle", executed' = executed, NEW w, sess'[s] = w, faults' = faults + 1,
             log'[s]["tool_call_denied"] = log[s]["tool_call_denied"] \/ t.at = "refuse",
             w = Leave(t, "error") \/ (t.at # "end" /\ w = Report(t, "error"))
      PROVE  Failing(s)
  BY <1>2, <1>l, <1>p, <1>r DEF Failing
<1>3. CASE Request(s)
  <2> DEFINE a == IF t.call.tool \in Tools THEN "allow" ELSE "refuse"
             w == [t EXCEPT !.at = a]
  <2>1. Emit(s, "tool_call_requested", w, Leave(t, "error")) /\ t.at = "request"
    BY <1>3 DEF Request
  <2>2. /\ w.at = a /\ w.status = t.status /\ w.rounds = t.rounds /\ w.outcome = t.outcome
        /\ w.call = t.call
    BY <1>a
  <2>3. "tool_call_requested" \notin Event
    BY DEF Event
  <2> HIDE DEF w
  <2>4. /\ Elsewhere(s) /\ expired' = expired /\ botched' = botched /\ executed' = executed
        /\ \/ sess'[s] = w /\ faults' = faults /\ log' = log
           \/ sess'[s] = Leave(t, "error") /\ faults' = faults + 1 /\ log' = log
    BY <2>1, <2>3, EmitShape
  <2> QED  BY <1>r, <2>1, <2>2, <2>4 DEF GoesOn, Became
<1>4. CASE Refuse(s)
  <2>1. Emit(s, "tool_call_denied", End(t, "denied"), Leave(t, "error")) /\ t.at = "refuse"
    BY <1>4 DEF Refuse
  <2>2. /\ Elsewhere(s) /\ expired' = expired /\ botched' = botched /\ executed' = executed
        /\ \/ sess'[s] = End(t, "denied") /\ faults' = faults /\ log'[s] = CountedIn(log[s], "tool_call_denied")
           \/ sess'[s] = Leave(t, "error") /\ faults' = faults + 1
    BY <2>1, EmitShape
  <2> QED  BY <1>e, <1>r, <2>1, <2>2 DEF GoesOn, Became
<1>5. CASE Allow(s)
  <2> DEFINE w == [t EXCEPT !.at = "run"]
  <2>1. Emit(s, "tool_call_allowed", w, Leave(t, "error")) /\ t.at = "allow"
    BY <1>5 DEF Allow
  <2>2. /\ w.at = "run" /\ w.status = t.status /\ w.rounds = t.rounds /\ w.outcome = t.outcome
        /\ w.call = t.call
    BY <1>a
  <2> HIDE DEF w
  <2>3. /\ Elsewhere(s) /\ expired' = expired /\ botched' = botched /\ executed' = executed
        /\ \/ sess'[s] = w /\ faults' = faults /\ log'[s] = CountedIn(log[s], "tool_call_allowed")
           \/ sess'[s] = Leave(t, "error") /\ faults' = faults + 1
        /\ log'[s]["tool_call_denied"] = log[s]["tool_call_denied"]
    BY <1>1, <2>1, EmitShape, CountedFact
  <2> QED  BY <1>r, <2>1, <2>2, <2>3 DEF GoesOn, Became
<1>6. CASE EndSession(s)
  <2> DEFINE w == Leave(t, t.outcome)
  <2>1. Emit(s, "tool_session_completed", w, Leave(t, "error")) /\ t.at = "end"
    BY <1>6 DEF EndSession
  <2>2. w.at = "idle" /\ w.status = t.status /\ w.rounds = t.rounds /\ w.outcome = t.outcome
    BY <1>1, <1>l
  <2> HIDE DEF w
  <2>3. /\ Elsewhere(s) /\ expired' = expired /\ botched' = botched /\ executed' = executed
        /\ \/ sess'[s] = w /\ faults' = faults /\ log'[s] = CountedIn(log[s], "tool_session_completed")
           \/ sess'[s] = Leave(t, "error") /\ faults' = faults + 1
        /\ log'[s]["tool_call_denied"] = log[s]["tool_call_denied"]
    BY <1>1, <2>1, EmitShape, CountedFact
  <2> QED  BY <1>r, <2>1, <2>2, <2>3 DEF GoesOn, Became
<1>7. CASE Deny(s)
  <2>1. Emit(s, "tool_permission_denied", Report(t, "denied"), Report(t, "error")) /\ t.at = "deny"
    BY <1>7 DEF Deny
  <2>2. "tool_permission_denied" \notin Event
    BY DEF Event
  <2>3. /\ Elsewhere(s) /\ expired' = expired /\ botched' = botched /\ executed' = executed
        /\ \/ sess'[s] = Report(t, "denied") /\ faults' = faults /\ log' = log
           \/ sess'[s] = Report(t, "error") /\ faults' = faults + 1 /\ log' = log
    BY <2>1, <2>2, EmitShape
  <2> QED  BY <1>2, <1>p, <1>r, <2>1, <2>3 DEF GoesOn, Became
<1>8. CASE Record(s) \/ Register(s)
  <2> DEFINE v == [t EXCEPT !.at = "register"]
  <2>1. PICK e, w : /\ Emit(s, e, w, Report(t, "error")) /\ e \notin Event
                    /\ w = v \/ w = Report(t, "success")
                    /\ t.at \in {"record", "register"}
    <3>1. ASSUME NEW tool PROVE Registered(tool) \notin Event
      BY DEF Registered, Event
    <3>2. CASE Record(s)
      <4>1. "tool_call" \notin Event
        BY DEF Event
      <4>2. /\ Emit(s, "tool_call", IF Registered(t.call.tool) = "none" THEN Report(t, "success") ELSE v,
                      Report(t, "error"))
            /\ t.at = "record"
        BY <3>2 DEF Record
      <4> HIDE DEF v, t
      <4> QED  BY <4>1, <4>2
    <3>3. CASE Register(s)
      <4>1. Emit(s, Registered(t.call.tool), Report(t, "success"), Report(t, "error")) /\ t.at = "register"
        BY <3>3 DEF Register
      <4> HIDE DEF v, t
      <4> QED  BY <3>1, <4>1
    <3> QED  BY <1>8, <3>2, <3>3
  <2>2. /\ v.at = "register" /\ v.status = t.status /\ v.rounds = t.rounds /\ v.outcome = t.outcome
        /\ v.call = t.call
    BY <1>a
  <2> HIDE DEF v
  <2>3. /\ Elsewhere(s) /\ expired' = expired /\ botched' = botched /\ executed' = executed
        /\ \/ sess'[s] = w /\ faults' = faults /\ log' = log
           \/ sess'[s] = Report(t, "error") /\ faults' = faults + 1 /\ log' = log
    BY <2>1, EmitShape
  <2>4. CASE sess'[s] = Report(t, "error") /\ faults' = faults + 1 /\ log' = log
    BY <1>r, <2>1, <2>3, <2>4
  <2>5. CASE sess'[s] = Report(t, "success") /\ faults' = faults /\ log' = log
    BY <1>2, <1>p, <2>1, <2>3, <2>5 DEF GoesOn, Became
  <2>6. CASE sess'[s] = v /\ faults' = faults /\ log' = log
    BY <2>1, <2>2, <2>3, <2>6 DEF GoesOn, Became
  <2> QED  BY <2>1, <2>3, <2>4, <2>5, <2>6
<1>9. ~(Write(s) \/ Fill(s) \/ CollectFiles(s) \/ CopyFiles(s) \/ BreakFill(s) \/ BreakCopy(s))
  BY DEF Write, Fill, CollectFiles, CopyFiles, BreakFill, BreakCopy
<1>10. Run(s) => t.at = "run"
  BY DEF Run
<1> QED
  BY <1>3, <1>4, <1>5, <1>6, <1>7, <1>8, <1>9, <1>10, RunShape, BreakShape, ReportCallShape DEF SessionStep
-----------------------------------------------------------------------------
\* The values of a scenario under way.
LEMMA UnderWayFact ==
    ASSUME ToolInv, LoopInv, NEW s, s = Mine, NEW k, k = Kind, NEW i, i = driver.turn
    PROVE  /\ i \in DOMAIN Scenario /\ s \in Session /\ k \in Kinds /\ s = Scenario[i].session
           /\ k = Scenario[i].kind
           /\ driver.asked \in Nat /\ driver.made \in Nat /\ driver.asked <= Len(Script(k))
           /\ sess[s].rounds \in Nat /\ executed[s] \in Nat /\ botched[s] \in Nat /\ faults \in Nat
           /\ log[s] \in [Event -> Nat] /\ expired[s] \in BOOLEAN /\ sess[s].at \in Phase
           /\ Len(Script(k)) = IF k \in {"agent", "max_rounds"} THEN 3 ELSE 1
<1>1. i \in DOMAIN Scenario /\ driver.asked \in Nat /\ driver.made \in Nat
  BY DEF LoopInv, Driver
<1>2. k \in Kinds /\ s \in Session /\ s = Scenario[i].session /\ k = Scenario[i].kind
  BY <1>1, ScenarioFact DEF Kind, Mine
<1>3. driver.asked <= Len(Script(k))
  BY DEF LoopInv
<1>4. faults \in Nat
  BY ToolAssumption DEF ToolInv, TypeOK
<1> QED  BY <1>1, <1>2, <1>3, <1>4, SessionFact, ScriptCalls

\* The call that is asked for.
LEMMA AskedFact ==
    ASSUME NEW i \in DOMAIN Scenario, NEW s, s = Scenario[i].session, NEW k, k = Scenario[i].kind,
           NEW n \in 1..Len(Script(k))
    PROVE  LET c == Script(k)[n] IN
           /\ c.tool \notin Writes
           /\ IF k = "illegal" THEN c.tool \notin Tools ELSE c.tool \in Tools /\ Permitted(s, c)
<1>1. k \in Kinds
  BY ScenarioFact
<1>2. CASE k = "illegal"
  <2>1. Script(k)[n].tool = "shell"
    BY <1>1, <1>2, ScriptCalls
  <2> QED  BY <1>2, <2>1 DEF Tools, Reads, Writes, Commands
<1>3. CASE k # "illegal"
  <2>1. /\ Script(k)[n].tool \in {"read_file", "list_files", "register_artifact"}
        /\ Script(k)[n].tool # "list_files" => Script(k)[n].arg = "hello.txt"
    BY <1>1, <1>3, ScriptCalls
  <2> QED  BY <1>3, <2>1, ReadsPermitted
<1> QED  BY <1>2, <1>3

\* A step that raises leaves little to say.
LEMMA FailingKeeps ==
    ASSUME NEW s, NEW k, NEW d, faults \in Nat, d.at \in {"wait", "check"}, Failing(s),
           RunsRight(k, d, sess[s], log[s], expired[s], executed[s], botched[s], faults)
    PROVE  RunsRight(k, d, sess'[s], log'[s], expired'[s], executed'[s], botched'[s], faults')
BY DEF Failing, RunsRight, CallRight, CountsRight

\* A step that goes on keeps the counts in line, and the scenario on its way.
LEMMA GoesOnKeeps ==
    ASSUME ToolInv, LoopInv, NEW s, s = Mine, NEW k, k = Kind, NEW d, d = driver,
           d.at \in {"wait", "check"}, GoesOn(s), expired' = expired,
           RunsRight(k, d, sess[s], log[s], expired[s], executed[s], botched[s], faults)
    PROVE  RunsRight(k, d, sess'[s], log'[s], expired'[s], executed'[s], botched'[s], faults')
<1> DEFINE t == sess[s]
           u == sess'[s]
           l == log[s]
           m == log'[s]
           ex == executed[s]
           ey == executed'[s]
           un == botched[s]
           x == expired[s]
           f == faults
<1>1. /\ d.asked \in Nat /\ d.made \in Nat /\ d.asked <= Len(Script(k)) /\ k \in Kinds /\ s \in Session
      /\ t.rounds \in Nat /\ ex \in Nat /\ un \in Nat /\ f \in Nat /\ l \in [Event -> Nat]
      /\ Len(Script(k)) = IF k \in {"agent", "max_rounds"} THEN 3 ELSE 1
  BY UnderWayFact
<1>2. CallRight(k, d, t, f) /\ CountsRight(k, d, t, l, ex, un)
      /\ (f = 0 /\ x = (k = "timeout") => Smooth(k, d, t, l))
  BY DEF RunsRight
<1>3. ASSUME t.at \in {"request", "run"}
      PROVE  /\ t.call = Script(k)[d.asked] /\ d.at = "wait"
             /\ IF k = "illegal" THEN t.call.tool \notin Tools
                ELSE t.call.tool \in Tools /\ Permitted(s, t.call)
  <2>1. d.at = "wait" /\ d.asked > 0 /\ t.call = Script(k)[d.asked]
    BY <1>2, <1>3 DEF CallRight
  <2>2. d.asked \in 1..Len(Script(k)) /\ driver.turn \in DOMAIN Scenario
        /\ s = Scenario[driver.turn].session /\ k = Scenario[driver.turn].kind
    BY <1>1, <2>1, UnderWayFact
  <2>3. IF k = "illegal" THEN Script(k)[d.asked].tool \notin Tools
        ELSE Script(k)[d.asked].tool \in Tools /\ Permitted(s, Script(k)[d.asked])
    BY <2>2, AskedFact
  <2> QED  BY <2>1, <2>3
<1>4. botched'[s] = un /\ faults' = f /\ expired'[s] = x
  BY DEF GoesOn
<1> SUFFICES /\ CallRight(k, d, u, f) /\ CountsRight(k, d, u, m, ey, un)
             /\ (f = 0 /\ x = (k = "timeout") => Smooth(k, d, u, m))
  BY <1>4 DEF RunsRight
<1>r. CASE t.at = "request"
  <2>1. /\ m = l /\ ey = ex /\ u.status = t.status /\ u.rounds = t.rounds /\ u.outcome = t.outcome
        /\ u.call = t.call /\ u.at = IF t.call.tool \in Tools THEN "allow" ELSE "refuse"
    BY <1>r DEF GoesOn, Became
  <2> HIDE DEF t, u, l, m, ex, ey, un, x, f
  <2> QED  BY <1>1, <1>2, <1>3, <1>r, <2>1
              DEF CallRight, CountsRight, Smooth, InEffect, Going, Ended
<1>f. CASE t.at = "refuse"
  <2>1. /\ m = CountedIn(l, "tool_call_denied") /\ ey = ex
        /\ u.rounds = t.rounds /\ u.outcome = t.outcome
        /\ IF t.status = "active" THEN u.at = "end" /\ u.status = "denied"
           ELSE u.at = "idle" /\ u.status = t.status
    BY <1>f DEF GoesOn, Became
  <2>2. /\ m["tool_session_completed"] = l["tool_session_completed"] /\ m["tool_call_denied"] > 0
    BY <1>1, <2>1 DEF CountedIn, Event
  <2> HIDE DEF t, u, l, m, ex, ey, un, x, f
  <2> QED  BY <1>1, <1>2, <1>f, <2>1, <2>2
              DEF CallRight, CountsRight, Smooth, InEffect, Going, Ended
<1>a. CASE t.at = "allow"
  <2>1. /\ m = CountedIn(l, "tool_call_allowed") /\ ey = ex /\ u.at = "run" /\ u.status = t.status
        /\ u.rounds = t.rounds /\ u.outcome = t.outcome /\ u.call = t.call
    BY <1>a DEF GoesOn, Became
  <2>2. /\ m["tool_session_completed"] = l["tool_session_completed"]
        /\ m["tool_call_denied"] = l["tool_call_denied"]
    BY <1>1, <2>1 DEF CountedIn, Event
  <2> HIDE DEF t, u, l, m, ex, ey, un, x, f
  <2> QED  BY <1>1, <1>2, <1>a, <2>1, <2>2
              DEF CallRight, CountsRight, Smooth, InEffect, Going, Ended
<1>e. CASE t.at = "end"
  <2>1. /\ m = CountedIn(l, "tool_session_completed") /\ ey = ex /\ u.at = "idle" /\ u.status = t.status
        /\ u.rounds = t.rounds /\ u.outcome = t.outcome
    BY <1>e DEF GoesOn, Became
  <2>2. /\ m["tool_session_completed"] = l["tool_session_completed"] + 1
        /\ m["tool_call_denied"] = l["tool_call_denied"]
    BY <1>1, <2>1 DEF CountedIn, Event
  <2>3. l["tool_session_completed"] = 0 /\ t.status \notin {"none", "active"}
    BY <1>1, <1>e, SessionFact DEF Good, EndsRight
  <2> HIDE DEF t, u, l, m, ex, ey, un, x, f
  <2> QED  BY <1>1, <1>2, <1>e, <2>1, <2>2, <2>3
              DEF CallRight, CountsRight, Smooth, InEffect, Going, Ended
<1>n. CASE t.at = "run"
  <2>1. /\ m = l /\ u.status = t.status /\ u.rounds = t.rounds /\ u.outcome = t.outcome
        /\ IF Permitted(s, t.call) THEN u.at = "record" /\ ey = ex + 1 ELSE u.at = "deny" /\ ey = ex
    BY <1>n DEF GoesOn, Became
  <2> HIDE DEF t, u, l, m, ex, ey, un, x, f
  <2> QED  BY <1>1, <1>2, <1>3, <1>n, <2>1
              DEF CallRight, CountsRight, Smooth, InEffect, Going, Ended
<1>d. CASE t.at = "deny"
  <2>1. /\ m = l /\ ey = ex /\ u.at = "report" /\ u.status = t.status /\ u.rounds = t.rounds + 1
        /\ u.outcome = "denied"
    BY <1>d DEF GoesOn, Became
  <2> HIDE DEF t, u, l, m, ex, ey, un, x, f
  <2> QED  BY <1>1, <1>2, <1>d, <2>1
              DEF CallRight, CountsRight, Smooth, InEffect, Going, Ended
<1>c. CASE t.at \in {"record", "register"}
  <2>1. /\ m = l /\ ey = ex /\ u.status = t.status
        /\ \/ u.at = "register" /\ u.rounds = t.rounds /\ u.outcome = t.outcome
           \/ u.at = "report" /\ u.rounds = t.rounds + 1 /\ u.outcome = "success"
    BY <1>c DEF GoesOn, Became
  <2> HIDE DEF t, u, l, m, ex, ey, un, x, f
  <2> QED  BY <1>1, <1>2, <1>c, <2>1
              DEF CallRight, CountsRight, Smooth, InEffect, Going, Ended
<1>p. CASE t.at = "report"
  <2>1. /\ m = CountedIn(l, "tool_call_completed") /\ ey = ex /\ u.at = "idle" /\ u.status = t.status
        /\ u.rounds = t.rounds /\ u.outcome = t.outcome
    BY <1>p DEF GoesOn, Became
  <2>2. /\ m["tool_session_completed"] = l["tool_session_completed"]
        /\ m["tool_call_denied"] = l["tool_call_denied"]
    BY <1>1, <2>1 DEF CountedIn, Event
  <2> HIDE DEF t, u, l, m, ex, ey, un, x, f
  <2> QED  BY <1>1, <1>2, <1>p, <2>1, <2>2
              DEF CallRight, CountsRight, Smooth, InEffect, Going, Ended
<1> QED  BY <1>r, <1>f, <1>a, <1>e, <1>n, <1>d, <1>c, <1>p DEF GoesOn
-----------------------------------------------------------------------------
\* What is known of the other scenarios stays, and a denial is the last scenario's.
LEMMA ElsewhereKeeps ==
    ASSUME LoopInv, UntouchedInv, OverInv, DeniedInv, NEW s, s = Mine, Elsewhere(s),
           driver.at \in {"open", "ask", "wait", "complete", "check"}, driver.report = "none",
           driver'.at \in {"ask", "wait", "complete", "check", "dead"},
           driver'.turn = driver.turn, driver'.failed = driver.failed, driver'.report = driver.report,
           log'[s]["tool_call_denied"] = log[s]["tool_call_denied"] \/ Kind = "illegal"
    PROVE  UntouchedInv' /\ OverInv' /\ DeniedInv'
<1>1. /\ driver.turn \in 1..Len(Scenario) /\ DOMAIN Scenario = 1..Len(Scenario) /\ Len(Scenario) \in Nat
      /\ s = Scenario[driver.turn].session /\ s \in Session /\ Kind = Scenario[driver.turn].kind
  BY ScenarioFact, AskedIsCall DEF Mine, Kind
<1>2. ASSUME NEW i \in DOMAIN Scenario, i # driver.turn
      PROVE  Scenario[i].session \in Session \ {s}
  BY <1>1, <1>2, MainFact, ScenarioFact
<1>3. UntouchedInv'
  <2> SUFFICES ASSUME NEW i \in DOMAIN Scenario, i > driver.turn
               PROVE  LET x == Scenario[i].session IN
                      /\ sess'[x].at = "idle" /\ sess'[x].status = "none" /\ sess'[x].rounds = 0
                      /\ sess'[x].outcome = "success" /\ executed'[x] = 0 /\ botched'[x] = 0 /\ ~expired'[x]
    BY DEF UntouchedInv
  <2>1. Scenario[i].session \in Session \ {s}
    BY <1>1, <1>2
  <2> QED  BY <2>1 DEF UntouchedInv, Elsewhere
<1>4. OverInv'
  <2>1. ASSUME NEW i \in DOMAIN Scenario
        PROVE  Over(i)' => Over(i) /\ i # driver.turn
    BY <1>1 DEF Over
  <2>2. ASSUME NEW i \in DOMAIN Scenario, Over(i)
        PROVE  Over(i)' /\ i # driver.turn
    BY <1>1, <2>2 DEF Over
  <2>3. ASSUME NEW i \in DOMAIN Scenario, i # driver.turn
        PROVE  Earned(i)' = Earned(i) /\ Mistimed(i)' = Mistimed(i)
    BY <1>2, <2>3 DEF Elsewhere, Earned, Mistimed
  <2>4. faults > 0 => faults' > 0
    BY DEF Elsewhere
  <2> QED  BY <2>1, <2>2, <2>3, <2>4 DEF OverInv
<1>5. DeniedInv'
  <2> SUFFICES ASSUME NEW x \in Session, log'[x]["tool_call_denied"] # 0
               PROVE  \E i \in 1..driver.turn : Scenario[i].session = x /\ Scenario[i].kind = "illegal"
    BY DEF DeniedInv
  <2>1. CASE log'[x]["tool_call_denied"] = log[x]["tool_call_denied"]
    BY <2>1 DEF DeniedInv
  <2>2. CASE log'[x]["tool_call_denied"] # log[x]["tool_call_denied"]
    <3>1. x = s /\ Kind = "illegal"
      BY <2>2 DEF Elsewhere
    <3>2. driver.turn \in 1..driver.turn
      BY <1>1
    <3> QED  BY <1>1, <3>1, <3>2
  <2> QED  BY <2>1, <2>2
<1> QED  BY <1>3, <1>4, <1>5

LEMMA CloseFact ==
    ASSUME LoopInv, NEW ok \in BOOLEAN, driver' = Close(ok)
    PROVE  /\ driver'.turn = IF driver.turn = Len(Scenario) THEN driver.turn ELSE driver.turn + 1
           /\ driver'.at = IF driver.turn = Len(Scenario) THEN "report" ELSE "open"
           /\ driver'.made = 0 /\ driver'.report = driver.report
           /\ driver'.failed = IF ok THEN driver.failed ELSE driver.failed \cup {Kind}
BY DEF LoopInv, Driver, Close

\* A scenario that closes as it should be, or for a reason.
LEMMA CloseKeepsVerdict ==
    ASSUME LoopInv, UntouchedInv, OverInv, DeniedInv, NEW s, s = Mine, Elsewhere(s),
           driver.at \in {"open", "wait", "check"}, driver.report = "none", log' = log,
           NEW i, i = driver.turn, NEW ok \in BOOLEAN, driver' = Close(ok),
           ok => Earned(i)', ~ok => faults' > 0 \/ Mistimed(i)'
    PROVE  VerdictInv'
<1>1. /\ driver.turn \in 1..Len(Scenario) /\ DOMAIN Scenario = 1..Len(Scenario) /\ Len(Scenario) \in Nat
      /\ s = Scenario[i].session /\ s \in Session /\ Kind = Scenario[i].kind
  BY ScenarioFact, AskedIsCall DEF Mine, Kind
<1>2. ASSUME NEW j \in DOMAIN Scenario, j # i
      PROVE  Scenario[j].session \in Session \ {s}
  BY <1>1, <1>2, MainFact, ScenarioFact
<1>3. /\ driver'.turn = IF i = Len(Scenario) THEN i ELSE i + 1
      /\ driver'.at = IF i = Len(Scenario) THEN "report" ELSE "open"
      /\ driver'.made = 0 /\ driver'.report = "none"
      /\ driver'.failed = IF ok THEN driver.failed ELSE driver.failed \cup {Kind}
  BY CloseFact
<1>4. UntouchedInv'
  <2> SUFFICES ASSUME NEW j \in DOMAIN Scenario,
                      j > driver'.turn \/ (j = driver'.turn /\ driver'.at = "open")
               PROVE  LET x == Scenario[j].session IN
                      /\ sess'[x].at = "idle" /\ sess'[x].status = "none" /\ sess'[x].rounds = 0
                      /\ sess'[x].outcome = "success" /\ executed'[x] = 0 /\ botched'[x] = 0 /\ ~expired'[x]
    BY DEF UntouchedInv
  <2>1. j > driver.turn
    BY <1>1, <1>3
  <2>2. Scenario[j].session \in Session \ {s}
    BY <1>1, <1>2, <2>1
  <2> QED  BY <2>1, <2>2 DEF UntouchedInv, Elsewhere
<1>5. OverInv'
  <2>1. ASSUME NEW j \in DOMAIN Scenario
        PROVE  Over(j)' <=> j = i \/ (Over(j) /\ j # i)
    BY <1>1, <1>3 DEF Over
  <2>3. ASSUME NEW j \in DOMAIN Scenario, j # i
        PROVE  Earned(j)' = Earned(j) /\ Mistimed(j)' = Mistimed(j)
    BY <1>2, <2>3 DEF Elsewhere, Earned, Mistimed
  <2>4. faults > 0 => faults' > 0
    BY DEF Elsewhere
  <2>5. \A j \in DOMAIN Scenario : Over(j) => j # i
    BY <1>1 DEF Over
  <2>6. ASSUME NEW j \in DOMAIN Scenario, Over(j)'
        PROVE  Earned(j)' \/ Scenario[j].kind \in driver'.failed
    <3>1. CASE j = i
      BY <1>1, <1>3, <3>1
    <3>2. CASE j # i
      BY <1>3, <2>1, <2>3, <2>6, <3>2 DEF OverInv
    <3> QED  BY <3>1, <3>2
  <2>7. ASSUME driver'.failed # {}
        PROVE  faults' > 0 \/ \E j \in DOMAIN Scenario : Over(j)' /\ Mistimed(j)'
    <3>1. CASE ok
      BY <1>3, <2>1, <2>3, <2>4, <2>5, <2>7, <3>1 DEF OverInv
    <3>2. CASE ~ok
      BY <1>1, <2>1, <3>2
    <3> QED  BY <3>1, <3>2
  <2> QED  BY <1>3, <2>6, <2>7 DEF OverInv
<1>6. DeniedInv'
  BY <1>1, <1>3 DEF DeniedInv
<1> QED  BY <1>3, <1>4, <1>5, <1>6 DEF VerdictInv, UnderWay
-----------------------------------------------------------------------------
\* The scenario begins: the session is there, or the append of its event has raised.
LEMMA OpenKeepsVerdict ==
    ASSUME ToolInv, LoopInv, VerdictInv, Open
    PROVE  VerdictInv'
<1> DEFINE s == Mine
           k == Kind
           i == driver.turn
           u == sess'[s]
<1>1. /\ i \in DOMAIN Scenario /\ s \in Session /\ k \in Kinds /\ s = Scenario[i].session
      /\ k = Scenario[i].kind /\ faults \in Nat /\ expired[s] \in BOOLEAN
      /\ Len(Script(k)) \in Nat \ {0}
  BY UnderWayFact, ScriptFact
<1>2. /\ driver.at = "open" /\ StartSession(s) /\ driver.asked = 0 /\ driver \in Driver
      /\ driver' = IF u.status = "active" THEN [driver EXCEPT !.at = "ask"] ELSE Raise
  BY DEF Open, LoopInv
<1>3. /\ UntouchedInv /\ OverInv /\ DeniedInv /\ driver.report = "none" /\ driver.made = 0
      /\ sess[s].at = "idle" /\ sess[s].status = "none" /\ sess[s].rounds = 0
      /\ sess[s].outcome = "success" /\ executed[s] = 0 /\ botched[s] = 0 /\ ~expired[s]
  BY <1>1, <1>2 DEF VerdictInv, UntouchedInv, OverInv
<1>4. /\ Elsewhere(s) /\ expired' = expired /\ botched' = botched /\ executed' = executed /\ log' = log
      /\ \/ u = [sess[s] EXCEPT !.status = "active"]
         \/ u = sess[s] /\ faults' = faults + 1
  <2>1. "tool_session_started" \notin Event
    BY DEF Event
  <2>2. Emit(s, "tool_session_started", [sess[s] EXCEPT !.status = "active"], sess[s])
    BY <1>2 DEF StartSession
  <2> HIDE DEF s, u
  <2> QED  BY <1>1, <2>1, <2>2, EmitShape DEF u
<1>5. CASE u = [sess[s] EXCEPT !.status = "active"]
  <2>1. u.status = "active" /\ u.at = "idle" /\ u.rounds = 0 /\ u.outcome = "success"
    BY <1>1, <1>3, <1>5, SessionFact DEF Object
  <2>2. /\ driver'.at = "ask" /\ driver'.turn = driver.turn /\ driver'.failed = driver.failed
        /\ driver'.report = "none" /\ driver'.asked = 0 /\ driver'.made = 0
    BY <1>2, <1>3, <2>1 DEF Driver
  <2>3. UntouchedInv' /\ OverInv' /\ DeniedInv'
    BY <1>2, <1>3, <1>4, <2>2, ElsewhereKeeps
  <2>4. Mine' = s /\ Kind' = k
    BY <2>2 DEF Mine, Kind
  <2> HIDE DEF s, k, i, u
  <2>5. RunsRight(k, driver', u, log'[s], expired'[s], executed'[s], botched'[s], faults')
    BY <1>1, <1>3, <1>4, <2>1, <2>2
       DEF RunsRight, CallRight, CountsRight, Smooth, InEffect, Going, Ended
  <2> QED  BY <2>2, <2>3, <2>4, <2>5 DEF VerdictInv, UnderWay, u
<1>6. CASE u = sess[s] /\ faults' = faults + 1
  <2>1. driver' = Raise /\ faults' > 0
    BY <1>1, <1>2, <1>3, <1>6
  <2>2. CASE k = "agent"
    <3>1. driver' = Close(FALSE)
      BY <2>1, <2>2 DEF Raise
    <3> QED  BY <1>2, <1>3, <1>4, <2>1, <3>1, CloseKeepsVerdict
  <2>3. CASE k # "agent"
    <3>1. driver' = [driver EXCEPT !.at = "dead"]
      BY <2>1, <2>3 DEF Raise
    <3>2. /\ driver'.at = "dead" /\ driver'.turn = driver.turn /\ driver'.failed = driver.failed
          /\ driver'.report = "none"
      BY <1>2, <1>3, <3>1 DEF Driver
    <3>3. UntouchedInv' /\ OverInv' /\ DeniedInv'
      BY <1>2, <1>3, <1>4, <3>2, ElsewhereKeeps
    <3> QED  BY <3>2, <3>3 DEF VerdictInv, UnderWay
  <2> QED  BY <2>2, <2>3
<1> QED  BY <1>4, <1>5, <1>6

\* A step of the session that leaves the driver under way.
LEMMA RunsKeepsVerdict ==
    ASSUME ToolInv, LoopInv, VerdictInv, NEW s, s = Mine, NEW k, k = Kind, Elsewhere(s), UnderWay,
           driver'.at \in {"ask", "wait", "complete", "check"}, driver'.turn = driver.turn,
           driver'.failed = driver.failed, driver'.report = driver.report,
           log'[s]["tool_call_denied"] = log[s]["tool_call_denied"] \/ k = "illegal",
           RunsRight(k, driver', sess'[s], log'[s], expired'[s], executed'[s], botched'[s], faults')
    PROVE  VerdictInv'
<1>1. /\ UntouchedInv /\ OverInv /\ DeniedInv
      /\ driver.at \in {"open", "ask", "wait", "complete", "check"}
      /\ driver.report = "none"
  BY DEF VerdictInv, UnderWay
<1>2. UntouchedInv' /\ OverInv' /\ DeniedInv'
  BY <1>1, ElsewhereKeeps
<1>3. Mine' = s /\ Kind' = k
  BY DEF Mine, Kind
<1> QED  BY <1>1, <1>2, <1>3 DEF VerdictInv, UnderWay

LEMMA WorkKeepsVerdict ==
    ASSUME ToolInv, LoopInv, VerdictInv, Work
    PROVE  VerdictInv'
<1> DEFINE s == Mine
           k == Kind
<1>1. /\ driver.at \in {"wait", "check"} /\ UnderWay /\ SessionStep(s) /\ driver' = driver /\ s \in Session
      /\ faults \in Nat /\ k \in Kinds /\ log[s] \in [Event -> Nat]
      /\ RunsRight(k, driver, sess[s], log[s], expired[s], executed[s], botched[s], faults)
  BY UnderWayFact DEF Work, VerdictInv, UnderWay
<1>2. /\ sess[s].at \notin {"write", "fill", "seal", "copy"}
      /\ sess[s].at = "refuse" => k = "illegal"
  BY <1>1 DEF RunsRight, CallRight
<1>3. sess[s].at = "run" => sess[s].call.tool \notin Writes
  <2> SUFFICES ASSUME sess[s].at = "run"
               PROVE  sess[s].call.tool \notin Writes
    OBVIOUS
  <2>1. driver.at = "wait" /\ driver.asked > 0 /\ sess[s].call = Script(k)[driver.asked]
    BY <1>1 DEF RunsRight, CallRight
  <2>2. driver.asked \in 1..Len(Script(k)) /\ driver.turn \in DOMAIN Scenario
        /\ s = Scenario[driver.turn].session /\ k = Scenario[driver.turn].kind
    <3>1. driver.asked \in Nat /\ driver.asked <= Len(Script(k)) /\ Len(Script(k)) \in Nat
      BY <1>1, UnderWayFact, ScriptFact
    <3> QED  BY <2>1, <3>1, UnderWayFact
  <2> QED  BY <2>1, <2>2, AskedFact
<1>4. Elsewhere(s) /\ expired' = expired /\ (Failing(s) \/ GoesOn(s))
  BY <1>1, <1>2, <1>3, StepFact
<1>5. RunsRight(k, driver, sess'[s], log'[s], expired'[s], executed'[s], botched'[s], faults')
  BY <1>1, <1>4, FailingKeeps, GoesOnKeeps
<1>6. log'[s]["tool_call_denied"] = log[s]["tool_call_denied"] \/ k = "illegal"
  <2>1. CASE log'[s] = log[s]
    BY <2>1
  <2>2. CASE \E e \in {"tool_call_allowed", "tool_session_completed", "tool_call_completed"} :
                log'[s] = CountedIn(log[s], e)
    BY <1>1, <2>2 DEF CountedIn, Event
  <2>3. CASE sess[s].at = "refuse"
    BY <1>2, <2>3
  <2>4. CASE log'[s]["tool_call_denied"] = log[s]["tool_call_denied"]
    BY <2>4
  <2> QED  BY <1>4, <2>1, <2>2, <2>3, <2>4 DEF Failing, GoesOn
<1> QED  BY <1>1, <1>4, <1>5, <1>6, RunsKeepsVerdict DEF UnderWay

\* The next call begins: its time, its budget, or its request.
LEMMA AskKeepsVerdict ==
    ASSUME ToolInv, LoopInv, VerdictInv, NEW late \in BOOLEAN, AskNext(late)
    PROVE  VerdictInv'
<1> DEFINE s == Mine
           k == Kind
           i == driver.turn
           n == driver.asked
           c == Script(k)[n + 1]
           t == sess[s]
           w == [t EXCEPT !.begun = @ + 1, !.call = c, !.outcome = "denied"]
           u == IF late THEN End(w, "timeout")
                ELSE IF Spent(s) THEN End(w, "max_rounds_exceeded")
                ELSE [w EXCEPT !.at = "request"]
           e == driver'
           f == faults
           l == log[s]
           ex == executed[s]
           un == botched[s]
           x == expired[s]
<1>1. /\ i \in DOMAIN Scenario /\ s \in Session /\ k \in Kinds /\ s = Scenario[i].session
      /\ k = Scenario[i].kind /\ f \in Nat /\ x \in BOOLEAN /\ n \in Nat /\ driver.made \in Nat
      /\ t.rounds \in Nat /\ ex \in Nat /\ t \in Object /\ Budget[s] \in Nat
      /\ Len(Script(k)) = IF k \in {"agent", "max_rounds"} THEN 3 ELSE 1
  BY UnderWayFact, SessionFact
<1>2. /\ driver.at = "ask" /\ UnderWay /\ BeginCall(s, c, late) /\ n < Len(Script(k)) /\ c \in Call[s]
      /\ driver' = [driver EXCEPT !.at = "wait", !.asked = n + 1] /\ driver \in Driver
  <2>1. driver.at = "ask" /\ BeginCall(s, c, late)
        /\ driver' = [driver EXCEPT !.at = "wait", !.asked = n + 1]
    BY DEF AskNext
  <2>2. n < Len(Script(k)) /\ c \in Call[s]
    BY <2>1, AskedIsCall DEF LoopInv
  <2> QED  BY <2>1, <2>2 DEF LoopInv, UnderWay
<1>3. /\ e.at = "wait" /\ e.asked = n + 1 /\ e.made = driver.made /\ e.turn = i
      /\ e.failed = driver.failed /\ e.report = driver.report
  BY <1>2 DEF Driver
<1>4. RunsRight(k, driver, t, l, x, ex, un, f)
  BY <1>2 DEF VerdictInv
<1>5. /\ sess' = [sess EXCEPT ![s] = u] /\ expired' = [expired EXCEPT ![s] = late]
      /\ UNCHANGED <<log, executed, botched, faults>> /\ (x => late)
      /\ Spent(s) <=> t.rounds >= Budget[s]
  BY <1>2 DEF BeginCall, Do, Spent
<1>6. w \in Object /\ w.status = t.status /\ w.rounds = t.rounds /\ w.outcome = "denied" /\ w.call = c
  <2> DEFINE b == t.begun + 1
  <2>1. c \in Calls /\ b \in Nat /\ w = [t EXCEPT !.begun = b, !.call = c, !.outcome = "denied"]
    BY <1>1, <1>2 DEF Calls, Object
  <2> HIDE DEF b, w, t, c
  <2> QED  BY <1>1, <2>1 DEF Object, Outcome
<1>7. /\ u.rounds = t.rounds /\ u.outcome = "denied"
      /\ IF late \/ Spent(s)
         THEN IF t.status = "active"
              THEN u.at = "end" /\ u.status = IF late THEN "timeout" ELSE "max_rounds_exceeded"
              ELSE u.at = "idle" /\ u.status = t.status
         ELSE u.at = "request" /\ u.status = t.status /\ u.call = c
  <2> HIDE DEF w, t, c
  <2>1. \A st \in {"timeout", "max_rounds_exceeded"} :
            /\ End(w, st).rounds = t.rounds /\ End(w, st).outcome = "denied"
            /\ IF t.status = "active" THEN End(w, st).at = "end" /\ End(w, st).status = st
               ELSE End(w, st).at = "idle" /\ End(w, st).status = t.status
    BY <1>6, EndFact DEF Status
  <2>2. LET v == [w EXCEPT !.at = "request"] IN
        v.at = "request" /\ v.status = t.status /\ v.rounds = t.rounds /\ v.outcome = "denied" /\ v.call = c
    BY <1>6 DEF Object
  <2> QED  BY <2>1, <2>2
<1>8. sess'[s] = u /\ expired'[s] = late /\ Elsewhere(s)
  <2>1. sess \in [Session -> Object] /\ expired \in [Session -> BOOLEAN]
    BY DEF ToolInv, TypeOK, Object
  <2> HIDE DEF s, u, f
  <2>2. sess'[s] = u /\ expired'[s] = late
        /\ \A y \in Session \ {s} : sess'[y] = sess[y] /\ expired'[y] = expired[y]
    BY <1>1, <1>5, <2>1
  <2>3. faults \in Nat /\ faults' = faults
    BY <1>1, <1>5 DEF f
  <2> QED  BY <1>5, <2>2, <2>3 DEF Elsewhere
<1>9. /\ k = "agent" => Budget[s] >= 3
      /\ k = "max_rounds" => Budget[s] = 2
      /\ k = "illegal" => Budget[s] >= 1
      /\ t.status = "timeout" => x
      /\ t.status = "active" => l["tool_session_completed"] = 0
  BY <1>1, MainFact, SessionFact DEF Good, EndsRight
<1>10. RunsRight(k, e, u, l, late, ex, un, f)
  <2> HIDE DEF s, k, i, n, c, t, w, u, e, f, l, ex, un, x
  <2>1. c = Script(k)[e.asked]
    BY <1>3 DEF c
  <2>2. /\ t.status # "none" /\ t.at = "idle" /\ t.outcome # "error" /\ un = 0
        /\ ex = IF k = "agent" THEN driver.made ELSE n
        /\ t.status = "active" => t.rounds = n
        /\ t.status # "active" => k = "agent" /\ t.status = "timeout" /\ l["tool_session_completed"] = 1
        /\ f = 0 /\ x = (k = "timeout") /\ k = "agent" => driver.made = n /\ t.status = "active"
    BY <1>1, <1>2, <1>4 DEF RunsRight, CallRight, CountsRight, Smooth, n
  <2>3. Spent(s) /\ ~late => k # "agent" /\ k # "illegal" /\ (k = "max_rounds" => n = 2)
    BY <1>1, <1>2, <1>5, <1>9, <2>2
  <2>4. ~Spent(s) /\ ~late => t.status = "active" /\ (k = "max_rounds" => n < 2)
    BY <1>1, <1>2, <1>5, <1>9, <2>2
  <2>5. CallRight(k, e, u, f)
    BY <1>1, <1>3, <1>7, <2>1, <2>2 DEF CallRight
  <2>6. CountsRight(k, e, u, l, ex, un)
    BY <1>1, <1>3, <1>7, <1>9, <2>2, <2>3, <2>4 DEF CountsRight, InEffect
  <2>7. f = 0 /\ late = (k = "timeout") => Smooth(k, e, u, l)
    <3> SUFFICES ASSUME f = 0, late = (k = "timeout")
                 PROVE  Smooth(k, e, u, l)
      OBVIOUS
    <3>1. CASE k = "timeout"
      <4>1. late /\ t.status = "active"
        BY <2>2, <3>1
      <4> QED  BY <1>3, <1>7, <3>1, <4>1 DEF Smooth, Ended
    <3>2. CASE k = "agent"
      <4>1. ~late /\ x = (k = "timeout")
        BY <1>1, <1>5, <3>2
      <4>2. ~Spent(s) /\ driver.made = n /\ t.status = "active"
        BY <2>2, <2>3, <3>2, <4>1
      <4> QED  BY <1>1, <1>3, <1>7, <3>2, <4>1, <4>2 DEF Smooth, Going
    <3>3. CASE k = "max_rounds"
      <4>1. ~late /\ t.status = "active"
        BY <2>2, <3>3
      <4>2. IF Spent(s) THEN n = 2 ELSE n < 2
        BY <2>3, <2>4, <3>3, <4>1
      <4> QED  BY <1>1, <1>3, <1>7, <3>3, <4>1, <4>2 DEF Smooth, Going, Ended
    <3>4. CASE k = "illegal"
      <4>1. ~late /\ t.status = "active" /\ ~Spent(s)
        BY <2>2, <2>3, <3>4
      <4> QED  BY <1>3, <1>7, <3>4, <4>1 DEF Smooth
    <3> QED  BY <1>1, <3>1, <3>2, <3>3, <3>4 DEF Kinds
  <2> QED  BY <2>5, <2>6, <2>7 DEF RunsRight
<1>11. /\ s = Mine /\ k = Kind /\ driver'.at = "wait" /\ driver'.turn = driver.turn
       /\ driver'.failed = driver.failed /\ driver'.report = driver.report
       /\ log'[s]["tool_call_denied"] = log[s]["tool_call_denied"]
       /\ RunsRight(k, driver', sess'[s], log'[s], expired'[s], executed'[s], botched'[s], faults')
  BY <1>3, <1>5, <1>8, <1>10
<1> HIDE DEF s, k, i, n, c, t, w, u, e, f, l, ex, un, x
<1> QED  BY <1>2, <1>8, <1>11, RunsKeepsVerdict

\* The session of an agent whose calls have all been made is completed.
LEMMA CompleteKeepsVerdict ==
    ASSUME ToolInv, LoopInv, VerdictInv, CompleteMine
    PROVE  VerdictInv'
<1> DEFINE s == Mine
           k == Kind
           t == sess[s]
           w == [t EXCEPT !.outcome = "success"]
           u == End(w, "success")
           e == driver'
<1>1. /\ s \in Session /\ k \in Kinds /\ faults \in Nat /\ driver.asked \in Nat /\ driver.made \in Nat
      /\ t.rounds \in Nat /\ executed[s] \in Nat /\ t \in Object
  BY UnderWayFact, SessionFact
<1>2. /\ driver.at = "complete" /\ UnderWay /\ Complete(s) /\ driver \in Driver
      /\ driver' = [driver EXCEPT !.at = "check"]
  BY DEF CompleteMine, LoopInv, UnderWay
<1>3. /\ e.at = "check" /\ e.asked = driver.asked /\ e.made = driver.made /\ e.turn = driver.turn
      /\ e.failed = driver.failed /\ e.report = driver.report
  BY <1>2 DEF Driver
<1>4. RunsRight(k, driver, t, log[s], expired[s], executed[s], botched[s], faults)
  BY <1>2 DEF VerdictInv
<1>5. sess' = [sess EXCEPT ![s] = u] /\ UNCHANGED <<log, expired, executed, botched, faults>>
  BY <1>2 DEF Complete, Do
<1>6. w \in Object /\ w.status = t.status /\ w.rounds = t.rounds /\ w.outcome = "success"
  BY <1>1 DEF Object, Outcome
<1>7. /\ u.rounds = t.rounds /\ u.outcome = "success"
      /\ IF t.status = "active" THEN u.at = "end" /\ u.status = "success"
         ELSE u.at = "idle" /\ u.status = t.status
  <2> HIDE DEF w, t
  <2> QED  BY <1>6, EndFact DEF Status
<1>8. sess'[s] = u /\ Elsewhere(s)
  <2>1. sess \in [Session -> Object]
    BY DEF ToolInv, TypeOK, Object
  <2> HIDE DEF s, u
  <2>2. sess'[s] = u /\ \A y \in Session \ {s} : sess'[y] = sess[y]
    BY <1>1, <1>5, <2>1
  <2> QED  BY <1>1, <1>5, <2>2 DEF Elsewhere
<1>9. RunsRight(k, e, u, log[s], expired[s], executed[s], botched[s], faults)
  <2> HIDE DEF s, k, t, w, u, e
  <2> QED  BY <1>1, <1>2, <1>3, <1>4, <1>7 DEF RunsRight, CallRight, CountsRight, Smooth, InEffect
<1>10. /\ s = Mine /\ k = Kind /\ driver'.at = "check" /\ driver'.turn = driver.turn
       /\ driver'.failed = driver.failed /\ driver'.report = driver.report
       /\ log'[s]["tool_call_denied"] = log[s]["tool_call_denied"]
       /\ RunsRight(k, driver', sess'[s], log'[s], expired'[s], executed'[s], botched'[s], faults')
  BY <1>3, <1>5, <1>8, <1>9
<1> HIDE DEF s, k, t, w, u, e
<1> QED  BY <1>2, <1>8, <1>10, RunsKeepsVerdict

\* Nothing but the driver moves: it goes on, it gives up, or it closes the scenario.
LEMMA NothingElsewhere ==
    ASSUME ToolInv, UNCHANGED vars
    PROVE  \A s \in Session : Elsewhere(s)
<1>1. faults \in Nat
  BY ToolAssumption DEF ToolInv, TypeOK
<1> QED  BY <1>1 DEF Elsewhere, vars

\* An agent's scenario that raises is closed, any other ends the script.
LEMMA RaiseKeepsVerdict ==
    ASSUME ToolInv, LoopInv, VerdictInv, UNCHANGED vars, driver.at \in {"wait", "check"},
           driver' = Raise, faults > 0
    PROVE  VerdictInv'
<1>1. /\ UntouchedInv /\ OverInv /\ DeniedInv /\ driver.report = "none" /\ log' = log /\ faults' > 0
      /\ Mine \in Session /\ Elsewhere(Mine) /\ driver \in Driver
  BY NothingElsewhere, AskedIsCall DEF VerdictInv, vars, LoopInv
<1>2. CASE Kind = "agent"
  <2>1. driver' = Close(FALSE)
    BY <1>2 DEF Raise
  <2> QED  BY <1>1, <2>1, CloseKeepsVerdict
<1>3. CASE Kind # "agent"
  <2>1. driver' = [driver EXCEPT !.at = "dead"]
    BY <1>3 DEF Raise
  <2>2. /\ driver'.at = "dead" /\ driver'.turn = driver.turn /\ driver'.failed = driver.failed
        /\ driver'.report = driver.report
    BY <1>1, <2>1 DEF Driver
  <2>3. UntouchedInv' /\ OverInv' /\ DeniedInv'
    BY <1>1, <2>2, ElsewhereKeeps
  <2> QED  BY <1>1, <2>2, <2>3 DEF VerdictInv, UnderWay
<1> QED  BY <1>2, <1>3

\* At the last call of a scenario that is not an agent's.
LEMMA LastIsRight ==
    ASSUME ToolInv, LoopInv, VerdictInv, NEW i, i = driver.turn, Kind # "agent", Last,
           driver.at = "wait", sess[Mine].at = "idle", sess[Mine].outcome # "error"
    PROVE  LET ok == sess[Mine].outcome = "denied" /\ AsExpected IN
           /\ ok => Earned(i)
           /\ ~ok => faults > 0 \/ Mistimed(i)
<1> DEFINE s == Mine
           k == Kind
           t == sess[s]
           n == driver.asked
           l == log[s]
           ex == executed[s]
           un == botched[s]
           x == expired[s]
<1>1. /\ i \in DOMAIN Scenario /\ s \in Session /\ k \in Kinds \ {"agent"} /\ s = Scenario[i].session
      /\ k = Scenario[i].kind /\ faults \in Nat /\ n \in Nat /\ n = Len(Script(k)) /\ n > 0
      /\ t.rounds \in Nat /\ ex \in Nat /\ un \in Nat /\ l["tool_session_completed"] \in Nat
      /\ n = IF k = "max_rounds" THEN 3 ELSE 1
  <2>1. n = Len(Script(k)) /\ Len(Script(k)) = IF k \in {"agent", "max_rounds"} THEN 3 ELSE 1
    BY UnderWayFact DEF Last
  <2> QED  BY <2>1, UnderWayFact DEF Event
<1>2. RunsRight(k, driver, t, l, x, ex, un, faults)
  BY DEF VerdictInv, UnderWay
<1>3. t.calls = l["tool_call_completed"] /\ t.rounds = t.calls + un /\ t.calls \in Nat
  <2>1. un = 0
    BY <1>2 DEF RunsRight, CountsRight
  <2>2. t.calls \in Nat /\ l["tool_call_completed"] \in Nat
    BY <1>1, SessionFact DEF Event
  <2>3. Counts(t, l, un) /\ t.at = "idle"
    BY <1>1, SessionFact DEF Good
  <2> HIDE DEF t, l, un
  <2> QED  BY <2>1, <2>2, <2>3 DEF Counts
<1>4. Mistimed(i) <=> x # (k = "timeout")
  BY <1>1 DEF Mistimed
<1>5. Expected[k] = [max_rounds |-> "max_rounds_exceeded", timeout |-> "timeout", illegal |-> "denied"][k]
  BY DEF Expected
<1>6. k \in {"max_rounds", "timeout", "illegal"}
      /\ Expected["max_rounds"] = "max_rounds_exceeded" /\ Expected["timeout"] = "timeout"
      /\ Expected["illegal"] = "denied"
  BY <1>1 DEF Kinds, Expected
<1>7. AsExpected <=> /\ t.status = Expected[k]
                     /\ k = "illegal" => l["tool_call_denied"] > 0 /\ l["tool_session_completed"] > 0
  BY DEF AsExpected
<1>8. Earned(i) <=> /\ ex = IF k = "max_rounds" THEN 2 ELSE 0
                    /\ l["tool_call_completed"] = ex /\ l["tool_session_completed"] = 1
                    /\ t.status = Expected[k]
  <2>1. /\ [agent |-> 3, max_rounds |-> 2, timeout |-> 0, illegal |-> 0][k] = IF k = "max_rounds" THEN 2 ELSE 0
        /\ [agent |-> "success", max_rounds |-> "max_rounds_exceeded",
            timeout |-> "timeout", illegal |-> "denied"][k] = Expected[k]
    BY <1>6
  <2> QED  BY <1>1, <2>1 DEF Earned
<1> HIDE DEF s, k, t, n, l, ex, un, x
<1>9. ASSUME t.outcome = "denied", t.status = Expected[k]
      PROVE  /\ ex = IF k = "max_rounds" THEN 2 ELSE 0
             /\ l["tool_call_completed"] = ex /\ l["tool_session_completed"] = 1
  BY <1>1, <1>2, <1>3, <1>6, <1>9 DEF RunsRight, CountsRight, InEffect, t, s, n
<1>10. ASSUME faults = 0, x = (k = "timeout")
       PROVE  /\ t.outcome = "denied" /\ t.status = Expected[k] /\ l["tool_session_completed"] = 1
              /\ k = "illegal" => l["tool_call_denied"] > 0
  <2>1. Smooth(k, driver, t, l)
    BY <1>2, <1>10 DEF RunsRight
  <2>2. Ended(t, Expected[k]) /\ (k = "illegal" => l["tool_call_denied"] > 0)
    BY <1>1, <1>6, <2>1 DEF Smooth, t, s, n
  <2>3. l["tool_session_completed"] = 1
    BY <1>2, <1>6, <2>2 DEF RunsRight, CountsRight, Ended, t, s
  <2> QED  BY <2>2, <2>3 DEF Ended
<1>11. faults = 0 \/ faults > 0
  BY <1>1
<1> QED  BY <1>4, <1>7, <1>8, <1>9, <1>10, <1>11 DEF t, s

\* A call has come back.
LEMMA HearKeepsVerdict ==
    ASSUME ToolInv, LoopInv, VerdictInv, Hear
    PROVE  VerdictInv'
<1> DEFINE s == Mine
           k == Kind
           i == driver.turn
           t == sess[s]
           n == driver.asked
           e == driver'
<1>1. /\ i \in DOMAIN Scenario /\ s \in Session /\ k \in Kinds /\ s = Scenario[i].session
      /\ k = Scenario[i].kind /\ faults \in Nat /\ n \in Nat /\ driver.made \in Nat
      /\ n <= Len(Script(k)) /\ Len(Script(k)) \in Nat \ {0}
      /\ Len(Script(k)) = IF k \in {"agent", "max_rounds"} THEN 3 ELSE 1
  BY UnderWayFact, ScriptFact
<1>2. /\ driver.at = "wait" /\ t.at = "idle" /\ UNCHANGED vars /\ driver \in Driver /\ UnderWay
      /\ driver.report = "none" /\ UntouchedInv /\ OverInv /\ DeniedInv
      /\ RunsRight(k, driver, t, log[s], expired[s], executed[s], botched[s], faults)
  BY DEF Hear, VerdictInv, UnderWay, LoopInv
<1>3. Elsewhere(s) /\ log' = log /\ sess' = sess /\ expired' = expired /\ executed' = executed
      /\ botched' = botched /\ faults' = faults
  BY <1>1, <1>2, NothingElsewhere DEF vars
<1>4. CASE t.outcome = "error"
  <2>1. driver' = Raise /\ faults > 0
    BY <1>2, <1>4 DEF Hear, RunsRight, CallRight
  <2> QED  BY <1>2, <2>1, RaiseKeepsVerdict
<1>on. ASSUME t.outcome # "error", e.at \in {"ask", "complete"}, e.asked = n, e.turn = driver.turn,
              e.failed = driver.failed, e.report = driver.report,
              e.at = "complete" => k = "agent" /\ n = 3,
              k = "agent" => e.made = Made, k # "agent" => t.outcome = "success"
       PROVE  VerdictInv'
  <2>1. Made = IF t.outcome = "success" THEN driver.made + 1 ELSE driver.made
    BY DEF Made
  <2>2. RunsRight(k, e, t, log[s], expired[s], executed[s], botched[s], faults)
    <3> HIDE DEF s, k, i, t, n, e
    <3> QED  BY <1>1, <1>2, <1>on, <2>1
                DEF RunsRight, CallRight, CountsRight, Smooth, Going, Ended, InEffect, n
  <2>3. /\ s = Mine /\ k = Kind /\ driver'.at \in {"ask", "wait", "complete", "check"}
        /\ driver'.turn = driver.turn /\ driver'.failed = driver.failed /\ driver'.report = driver.report
        /\ log'[s]["tool_call_denied"] = log[s]["tool_call_denied"]
        /\ RunsRight(k, driver', sess'[s], log'[s], expired'[s], executed'[s], botched'[s], faults')
    BY <1>3, <1>on, <2>2
  <2> HIDE DEF s, k, i, t, n, e
  <2> QED  BY <1>2, <1>3, <2>3, RunsKeepsVerdict
<1>5. CASE t.outcome # "error" /\ k = "agent"
  <2> DEFINE a == IF Last THEN "complete" ELSE "ask"
             m == Made
  <2>1. driver' = [driver EXCEPT !.at = a, !.made = m]
    BY <1>5 DEF Hear
  <2>2. a \in {"ask", "complete"} /\ (a = "complete" => n = 3)
    BY <1>1, <1>5 DEF Last
  <2> HIDE DEF a, m
  <2>3. /\ e.at = a /\ e.made = m /\ e.asked = n /\ e.turn = driver.turn
        /\ e.failed = driver.failed /\ e.report = driver.report
    BY <1>2, <2>1 DEF Driver
  <2> QED  BY <1>5, <1>on, <2>2, <2>3 DEF m
<1>turn. PICK j \in DOMAIN Scenario : j = driver.turn
  BY <1>1
<1>stay. Earned(j)' = Earned(j) /\ Mistimed(j)' = Mistimed(j)
  BY <1>2 DEF Earned, Mistimed, vars
<1>close. ASSUME NEW ok \in BOOLEAN, driver' = Close(ok), ok => Earned(j),
                 ~ok => faults > 0 \/ Mistimed(j)
          PROVE  VerdictInv'
  <2> HIDE DEF k, i, t, n, e
  <2> QED  BY <1>1, <1>2, <1>3, <1>turn, <1>stay, <1>close, CloseKeepsVerdict
<1>6. CASE t.outcome # "error" /\ k # "agent" /\ Last
  <2>1. PICK ok \in BOOLEAN : ok = (t.outcome = "denied" /\ AsExpected)
    OBVIOUS
  <2>2. driver' = Close(ok)
    BY <1>6, <2>1 DEF Hear
  <2>3. /\ ok => Earned(j)
        /\ ~ok => faults > 0 \/ Mistimed(j)
    BY <1>1, <1>2, <1>6, <1>turn, <2>1, LastIsRight
  <2> QED  BY <1>close, <2>2, <2>3
<1>7. CASE t.outcome = "denied" /\ k # "agent" /\ ~Last
  <2>1. driver' = Close(FALSE)
    BY <1>7 DEF Hear
  <2>2. k = "max_rounds" /\ n < 3 /\ n > 0
    <3> HIDE DEF s, i, t, e
    <3> QED  BY <1>1, <1>2, <1>7 DEF Last, RunsRight, CallRight, Kinds
  <2>3. faults > 0 \/ Mistimed(j)
    <3> SUFFICES ASSUME faults = 0, ~Mistimed(j)
                 PROVE  FALSE
      BY <1>1
    <3>1. expired[s] = (k = "timeout")
      BY <1>1, <1>turn, SessionFact DEF Mistimed
    <3>2. Smooth(k, driver, t, log[s])
      BY <1>2, <3>1 DEF RunsRight
    <3> HIDE DEF s, k, i, t, n, e
    <3>3. Going(t)
      BY <1>2, <2>2, <3>2 DEF Smooth, n
    <3> QED  BY <1>2, <1>7, <3>3 DEF Going
  <2> QED  BY <1>close, <2>1, <2>3
<1>8. CASE t.outcome \notin {"error", "denied"} /\ k # "agent" /\ ~Last
  <2>1. driver' = [driver EXCEPT !.at = "ask"]
    BY <1>8 DEF Hear
  <2>2. /\ e.at = "ask" /\ e.asked = n /\ e.turn = driver.turn
        /\ e.failed = driver.failed /\ e.report = driver.report
    BY <1>2, <2>1 DEF Driver
  <2>3. t.outcome = "success"
    BY <1>1, <1>8, SessionFact DEF Outcome
  <2> QED  BY <1>8, <1>on, <2>2, <2>3
<1> QED  BY <1>4, <1>5, <1>6, <1>7, <1>8

\* The four channels of an agent's scenario are as they should be, or something else is not.
LEMMA ChannelsAreRight ==
    ASSUME ToolInv, LoopInv, VerdictInv, NEW i \in DOMAIN Scenario, i = driver.turn,
           driver.at = "check", sess[Mine].at = "idle", sess[Mine].outcome # "error"
    PROVE  /\ FourChannels => Earned(i)
           /\ ~FourChannels => faults > 0 \/ Mistimed(i)
<1> DEFINE s == Mine
           k == Kind
           t == sess[s]
           l == log[s]
           ex == executed[s]
           un == botched[s]
           x == expired[s]
<1>1. /\ s \in Session /\ s = Scenario[i].session /\ k = Scenario[i].kind /\ faults \in Nat
      /\ driver.made \in Nat /\ t.rounds \in Nat /\ ex \in Nat /\ un \in Nat /\ x \in BOOLEAN
      /\ \A e \in Event : l[e] \in Nat
  BY UnderWayFact, SessionFact
<1>2. RunsRight(k, driver, t, l, x, ex, un, faults) /\ DeniedInv
  BY DEF VerdictInv, UnderWay
<1>3. /\ t.calls = l["tool_call_completed"] /\ t.rounds = t.calls + un /\ t.calls \in Nat
      /\ ex <= l["tool_call_allowed"]
  <2>1. un = 0
    BY <1>2 DEF RunsRight, CountsRight
  <2>2. t.calls \in Nat /\ l["tool_call_completed"] \in Nat
    BY <1>1, SessionFact DEF Event
  <2>3. Counts(t, l, un) /\ t.at = "idle" /\ ex <= l["tool_call_allowed"]
    BY <1>1, SessionFact DEF Good, WithinBudget
  <2> HIDE DEF t, l, un
  <2> QED  BY <2>1, <2>2, <2>3 DEF Counts
<1>4. k = "agent" /\ driver.asked = 3
  BY <1>2 DEF RunsRight, CallRight
<1>5. Mistimed(i) <=> x
  BY <1>1, <1>4 DEF Mistimed
<1>6. Earned(i) <=> /\ ex = 3 /\ l["tool_call_completed"] = ex /\ l["tool_session_completed"] = 1
                    /\ t.status = "success"
  BY <1>1, <1>4 DEF Earned
<1>7. /\ un = 0 /\ ex = driver.made
      /\ t.status = "success" => t.rounds = 3 /\ l["tool_session_completed"] = 1
  <2> HIDE DEF s, k, t, l, ex, un, x
  <2> QED  BY <1>2, <1>4 DEF RunsRight, CountsRight, InEffect, t, s
<1>8. FourChannels => t.status = "success" /\ t.rounds = driver.made
  BY DEF FourChannels
<1>9. ASSUME faults = 0, ~x
      PROVE  FourChannels
  <2>1. t.status = "success" /\ driver.made = 3
    <3>1. x = (k = "timeout")
      BY <1>1, <1>4, <1>9
    <3>2. Smooth(k, driver, t, l)
      BY <1>2, <1>9, <3>1 DEF RunsRight
    <3> HIDE DEF s, k, t, l, ex, un, x
    <3> QED  BY <1>4, <3>2 DEF Smooth
  <2>2. /\ l["tool_call_allowed"] > 0 /\ l["tool_call_completed"] > 0 /\ l["tool_session_completed"] > 0
        /\ t.rounds = driver.made
    <3>1. /\ "tool_call_allowed" \in Event /\ "tool_call_completed" \in Event
          /\ "tool_session_completed" \in Event
      BY DEF Event
    <3> HIDE DEF s, k, t, l, ex, un, x
    <3> QED  BY <1>1, <1>3, <1>7, <2>1, <3>1
  <2>3. ~InRun("tool_call_denied")
    <3> SUFFICES ASSUME NEW y \in Session, log[y]["tool_call_denied"] > 0
                 PROVE  FALSE
      BY DEF InRun
    <3>1. PICK j \in 1..driver.turn : Scenario[j].session = y /\ Scenario[j].kind = "illegal"
      BY <1>2 DEF DeniedInv
    <3>2. j \in DOMAIN Scenario /\ (j < i \/ j = i)
      BY ScenarioFact, AskedIsCall
    <3>3. Scenario[i].kind = "agent"
      BY <1>1, <1>4
    <3>4. Scenario[j].kind = "agent"
      <4> HIDE DEF s, k, t, l, ex, un, x
      <4> QED  BY <3>2, <3>3, MainFact
    <3> QED  BY <3>1, <3>4
  <2> QED  BY <1>1, <2>1, <2>2, <2>3 DEF FourChannels, InRun
<1>10. faults = 0 \/ faults > 0
  BY <1>1
<1> HIDE DEF s, k, t, l, ex, un, x
<1> QED  BY <1>1, <1>3, <1>5, <1>6, <1>7, <1>8, <1>9, <1>10

LEMMA CheckKeepsVerdict ==
    ASSUME ToolInv, LoopInv, VerdictInv, Check
    PROVE  VerdictInv'
<1>1. /\ driver.at = "check" /\ sess[Mine].at = "idle" /\ UNCHANGED vars /\ driver \in Driver /\ UnderWay
      /\ driver.report = "none" /\ UntouchedInv /\ OverInv /\ DeniedInv /\ Mine \in Session
      /\ RunsRight(Kind, driver, sess[Mine], log[Mine], expired[Mine], executed[Mine], botched[Mine], faults)
  BY AskedIsCall DEF Check, VerdictInv, UnderWay, LoopInv
<1>2. Elsewhere(Mine) /\ log' = log /\ faults' = faults
  BY <1>1, NothingElsewhere DEF vars
<1>3. CASE sess[Mine].outcome = "error"
  <2>1. driver' = Raise /\ faults > 0
    BY <1>1, <1>3 DEF Check, RunsRight, CallRight
  <2> QED  BY <1>1, <2>1, RaiseKeepsVerdict
<1>4. CASE sess[Mine].outcome # "error"
  <2>1. PICK i \in DOMAIN Scenario : i = driver.turn
    BY UnderWayFact
  <2>2. PICK ok \in BOOLEAN : ok = FourChannels
    BY DEF FourChannels
  <2>3. driver' = Close(ok)
    BY <1>4, <2>2 DEF Check
  <2>4. Earned(i)' = Earned(i) /\ Mistimed(i)' = Mistimed(i)
    BY <1>1 DEF Earned, Mistimed, vars
  <2>5. /\ ok => Earned(i)
        /\ ~ok => faults > 0 \/ Mistimed(i)
    BY <1>1, <1>4, <2>1, <2>2, ChannelsAreRight
  <2> QED  BY <1>1, <1>2, <2>1, <2>3, <2>4, <2>5, CloseKeepsVerdict
<1> QED  BY <1>3, <1>4

\* The report is PASS when no scenario is remembered, and nothing else moves.
LEMMA WriteReportKeepsVerdict ==
    ASSUME ToolInv, LoopInv, VerdictInv, WriteReport
    PROVE  VerdictInv'
<1>1. /\ driver.at = "report" /\ driver.report = "none" /\ UNCHANGED vars /\ driver \in Driver
      /\ UntouchedInv /\ OverInv /\ DeniedInv
      /\ driver' = [driver EXCEPT !.report = IF driver.failed = {} THEN "PASS" ELSE "FAIL"]
  BY DEF WriteReport, VerdictInv, LoopInv
<1>2. /\ driver'.at = "report" /\ driver'.turn = driver.turn /\ driver'.failed = driver.failed
      /\ driver'.report = IF driver.failed = {} THEN "PASS" ELSE "FAIL"
  BY <1>1 DEF Driver
<1>3. UntouchedInv'
  BY <1>1, <1>2 DEF UntouchedInv, vars
<1>4. DeniedInv'
  BY <1>1, <1>2 DEF DeniedInv, vars
<1>5. OverInv'
  <2>1. ASSUME NEW j \in DOMAIN Scenario
        PROVE  Over(j)' = Over(j) /\ Earned(j)' = Earned(j) /\ Mistimed(j)' = Mistimed(j)
    BY <1>1, <1>2 DEF Over, Earned, Mistimed, vars
  <2>2. faults' = faults
    BY <1>1 DEF vars
  <2> QED  BY <1>1, <1>2, <2>1, <2>2 DEF OverInv
<1> QED  BY <1>2, <1>3, <1>4, <1>5 DEF VerdictInv, UnderWay
-----------------------------------------------------------------------------
LEMMA VerdictInitGood == LoopInit => VerdictInv
<1> SUFFICES ASSUME LoopInit
             PROVE  VerdictInv
  OBVIOUS
<1>1. Init /\ LoopInv
  BY LoopInitGood
<1>2. /\ driver.turn = 1 /\ driver.at \in {"off", "open"} /\ driver.made = 0 /\ driver.failed = {}
      /\ driver.report = "none"
  BY DEF LoopInit, Off
<1>3. ASSUME NEW s \in Session
      PROVE  /\ sess[s].at = "idle" /\ sess[s].status = "none" /\ sess[s].rounds = 0
             /\ sess[s].outcome = "success" /\ executed[s] = 0 /\ botched[s] = 0 /\ ~expired[s]
             /\ log[s]["tool_call_denied"] = 0
  BY <1>1 DEF Init, Fresh, Event
<1>4. UntouchedInv
  BY <1>3, ScenarioFact DEF UntouchedInv
<1>5. DeniedInv
  BY <1>3 DEF DeniedInv
<1>6. OverInv
  <2>1. ASSUME NEW i \in DOMAIN Scenario
        PROVE  ~Over(i)
    <3>1. i \in Nat /\ i >= 1
      BY ScenarioFact
    <3> QED  BY <1>2, <3>1 DEF Over
  <2> QED  BY <1>2, <2>1 DEF OverInv
<1> QED  BY <1>2, <1>4, <1>5, <1>6 DEF VerdictInv, UnderWay

LEMMA VerdictStep ==
    ASSUME ToolInv, LoopInv, VerdictInv, [LoopNext]_loopVars
    PROVE  VerdictInv'
<1>1. CASE Drive
  BY <1>1, OpenKeepsVerdict, WorkKeepsVerdict, HearKeepsVerdict, CompleteKeepsVerdict,
     CheckKeepsVerdict, WriteReportKeepsVerdict, AskKeepsVerdict DEF Drive
<1>2. CASE driver.at = "off" /\ UNCHANGED driver
  BY <1>2 DEF VerdictInv
<1>3. CASE UNCHANGED loopVars
  <2>1. ASSUME NEW j \in DOMAIN Scenario
        PROVE  Over(j)' = Over(j) /\ Earned(j)' = Earned(j) /\ Mistimed(j)' = Mistimed(j)
    BY <1>3 DEF Over, Earned, Mistimed, vars, loopVars
  <2>2. UNCHANGED <<sess, log, expired, executed, botched, faults, driver>> /\ Mine' = Mine /\ Kind' = Kind
    BY <1>3 DEF vars, loopVars, Mine, Kind
  <2>3. OverInv => OverInv'
    BY <2>1, <2>2 DEF OverInv
  <2>4. (UntouchedInv => UntouchedInv') /\ (DeniedInv => DeniedInv')
    BY <2>2 DEF UntouchedInv, DeniedInv
  <2> QED  BY <2>2, <2>3, <2>4 DEF VerdictInv, UnderWay
<1> QED  BY <1>1, <1>2, <1>3 DEF LoopNext

\* The script's report is true both ways, whatever raises, however late a call and whatever
\* the scenarios' number: a PASS has been earned by every scenario, and behind a FAIL there
\* is an append or a tool that raised, or a session of the wrong age
\* (phase7_tool_loop_e2e.py:104-135, 152-301).
THEOREM VerdictAlwaysRight == LoopSpec => []VerdictIsRight
<1>1. LoopInit => LoopInv /\ VerdictInv
  BY LoopInitGood, VerdictInitGood
<1>2. ToolInv /\ LoopInv /\ VerdictInv /\ [LoopNext]_loopVars => LoopInv' /\ VerdictInv'
  BY LoopStep, VerdictStep
<1>3. LoopInv /\ VerdictInv => VerdictIsRight
  <2> SUFFICES ASSUME LoopInv, VerdictInv
               PROVE  VerdictIsRight
    OBVIOUS
  <2>1. CASE driver.report = "none"
    BY <2>1 DEF VerdictIsRight, PassIsEarned, FailHasReason
  <2>2. CASE driver.report # "none"
    <3>1. driver.at = "report" /\ OverInv
      BY <2>2 DEF VerdictInv
    <3>2. ASSUME NEW i \in DOMAIN Scenario
          PROVE  Over(i)
      BY <3>1, ScenarioFact, AskedIsCall DEF OverInv, Over
    <3> QED  BY <2>2, <3>1, <3>2 DEF OverInv, VerdictIsRight, PassIsEarned, FailHasReason
  <2> QED  BY <2>1, <2>2
<1>4. LoopSpec => []ToolInv
  BY LoopImplementsSession, ToolInvariant, PTL
<1> QED  BY <1>1, <1>2, <1>3, <1>4, PTL DEF LoopSpec
=============================================================================
