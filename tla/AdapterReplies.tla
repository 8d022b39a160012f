--------------------------- MODULE AdapterReplies ---------------------------
(***************************************************************************)
(* The words the engine adapters (src/engine/<provider>) are described in. *)
(*                                                                         *)
(* An adapter looks at its configuration c (the endpoint or the model New  *)
(* settled on; "" is a field left empty) and at what it is given, g: a set *)
(* that holds "key" when ResolveKey finds a credential and the name of     *)
(* every kind of input the graph carries ("prompt", "image", ...; "bad"    *)
(* when the graph fails Validate).  It then either gives up before any     *)
(* request, or sends one.                                                  *)
(*                                                                         *)
(* An answer of the service is a record: word is its status word ("" when  *)
(* it has none, case folded when the adapter folds it) and has the set of  *)
(* the fields it carries that are not empty.                               *)
(***************************************************************************)
EXTENDS Naturals, Sequences, FiniteSetsExt

(* What an adapter decides. *)
Fail == [do |-> "fail"]
Wait == [do |-> "wait"]
Fetch == [do |-> "fetch"]
Give(field, kind) == [do |-> "give", value |-> field, kind |-> kind]

(* A request whose answer is the result, and one that creates a job: the   *)
(* answer then only holds the ID of the job, which is polled at home.      *)
(* makes is the media the request asks for and sends the inputs it carries.*)
Ask(path, makes, sends) ==
  [do |-> "ask", path |-> path, home |-> "", makes |-> makes, sends |-> sends]
Job(path, home, makes, sends) ==
  [do |-> "job", path |-> path, home |-> home, makes |-> makes, sends |-> sends]

(* Where Resume polls. *)
PollAt(home) == [do |-> "poll", home |-> home]

(* Every adapter with a graph of its own starts with Validate, ResolveKey  *)
(* and ExtractPrompt, each of which ends the call.                         *)
Ready(g, needs) == "bad" \notin g /\ needs \subseteq g

(* The first of the fields names (a sequence) that the answer carries.     *)
FirstOf(names, r, kind) ==
  LET held == {i \in DOMAIN names : names[i] \in r.has}
  IN IF held = {} THEN Fail ELSE Give(names[Min(held)], kind)

(* A created job: no ID is an error; a caller that does not wait gets the  *)
(* ID as plain text; one that waits polls.                                 *)
Ticket(waits, r) ==
  IF "id" \notin r.has THEN Fail ELSE IF waits THEN Wait ELSE Give("id", "text")

(* ClassifyOutput: what a string of this shape is called.                  *)
ClassifyOutput(shape) ==
  CASE shape = "" -> "unknown"
    [] shape = "data" -> "data"
    [] shape = "link" -> "url"
    [] shape = "object" -> "json"
    [] OTHER -> "text"
=============================================================================
