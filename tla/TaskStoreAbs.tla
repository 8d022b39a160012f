---------------------------- MODULE TaskStoreAbs ----------------------------
(***************************************************************************)
(* What the TaskStore interface promises its callers: every call takes     *)
(* effect atomically at one moment between its invocation and its return,  *)
(* a failed call has no effect, and a call cut short by the death of its   *)
(* process either took effect or did not.  FileTaskStore implements it.    *)
(***************************************************************************)
EXTENDS TaskRecords

CONSTANTS Thread,   \* goroutines that call the store
          Calls     \* the calls they may make

VARIABLES recs,     \* the records of the store
          now,      \* the wall clock
          phase,    \* phase[t]: "idle", "called" or "done"
          call,     \* call[t]: the call t is making
          since,    \* since[t]: when t made it
          out,      \* out[t]: "none" until the effect, then "ok" or "err"
          view      \* view[t]: the records a read returns

vars == <<recs, now, phase, call, since, out, view>>

\* What the call variable holds between calls.
NoCall == [kind |-> "all"]

IsWrite(c) == c.kind \in {"save", "delete", "purge"}

\* The records after write c, stamped with time n.
Effect(c, rs, n) ==
  CASE c.kind = "save"   -> Upsert(rs, c.id, [st |-> c.st, upd |-> n])
    [] c.kind = "delete" -> Without(rs, {c.id})
    [] c.kind = "purge"  -> Without(rs, Expired(rs, n - c.age))

\* The records read c returns: one (or none, ErrTaskNotFound) for Load.
Answer(c, rs) ==
  IF c.kind = "load" THEN Without(rs, Task \ {c.id}) ELSE rs

Init == /\ recs = NoRecords
        /\ now = 0
        /\ phase = [t \in Thread |-> "idle"]
        /\ call = [t \in Thread |-> NoCall]
        /\ since = [t \in Thread |-> 0]
        /\ out = [t \in Thread |-> "none"]
        /\ view = [t \in Thread |-> NoRecords]

Tick == /\ now' = now + 1
        /\ UNCHANGED <<recs, phase, call, since, out, view>>

Invoke(t, c) ==
  /\ phase[t] = "idle"
  /\ phase' = [phase EXCEPT ![t] = "called"]
  /\ call' = [call EXCEPT ![t] = c]
  /\ since' = [since EXCEPT ![t] = now]
  /\ UNCHANGED <<recs, now, out, view>>

\* The instant a write takes effect; its stamp was taken during the call.
Write(t) ==
  /\ phase[t] = "called"
  /\ IsWrite(call[t])
  /\ \E n \in since[t]..now : recs' = Effect(call[t], recs, n)
  /\ phase' = [phase EXCEPT ![t] = "done"]
  /\ out' = [out EXCEPT ![t] = "ok"]
  /\ UNCHANGED <<now, call, since, view>>

Read(t) ==
  /\ phase[t] = "called"
  /\ ~IsWrite(call[t])
  /\ view' = [view EXCEPT ![t] = Answer(call[t], recs)]
  /\ phase' = [phase EXCEPT ![t] = "done"]
  /\ out' = [out EXCEPT ![t] = "ok"]
  /\ UNCHANGED <<recs, now, call, since>>

Fail(t) ==
  /\ phase[t] = "called"
  /\ phase' = [phase EXCEPT ![t] = "done"]
  /\ out' = [out EXCEPT ![t] = "err"]
  /\ UNCHANGED <<recs, now, call, since, view>>

\* The calls of the threads of S are over.
Over(S) ==
  LET clear(f, v) == [t \in Thread |-> IF t \in S THEN v ELSE f[t]]
  IN /\ phase' = clear(phase, "idle")
     /\ call' = clear(call, NoCall)
     /\ since' = clear(since, 0)
     /\ out' = clear(out, "none")
     /\ view' = clear(view, NoRecords)
     /\ UNCHANGED <<recs, now>>

Return(t) == phase[t] = "done" /\ Over({t})

\* The threads of S die in the middle of their calls.
Die(S) == Over(S)

Next == \/ Tick
        \/ \E t \in Thread : \/ \E c \in Calls : Invoke(t, c)
                             \/ Write(t) \/ Read(t) \/ Fail(t) \/ Return(t)
        \/ \E S \in SUBSET Thread : Die(S)

Spec == Init /\ [][Next]_vars
=============================================================================
