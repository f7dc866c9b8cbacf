----------------------------- MODULE LoginPrompts -----------------------------
(***************************************************************************)
(* How session-bridge answers Ash's login screen: EmitLoginPromptVisible   *)
(* puts a token on the channel startCh unless it is full, and one consumer *)
(* goroutine takes a token, sleeps 300 ms and emits                        *)
(* SessionStateChanged("started").                                         *)
(***************************************************************************)
EXTENDS Naturals, FiniteSets

CONSTANTS
  Prompt,     \* the EmitLoginPromptVisible calls Ash makes, each once
  Capacity    \* of startCh; 1 in the code

VARIABLES
  queued,      \* how many tokens startCh holds
  consumer,    \* what the consumer goroutine is doing
  prompts,     \* the calls served so far
  unanswered,  \* those since which no signal was emitted
  emitted      \* how many signals were emitted

vars == <<queued, consumer, prompts, unanswered, emitted>>

TypeOK ==
  /\ queued \in 0..Capacity
  /\ consumer \in {"receive", "sleep", "emit"}
  /\ prompts \subseteq Prompt
  /\ unanswered \subseteq prompts
  /\ emitted \in Nat

Init ==
  /\ queued = 0
  /\ consumer = "receive"
  /\ prompts = {}
  /\ unanswered = {}
  /\ emitted = 0

(* Mutant: only the first prompt sends. *)
EmitLoginPromptVisible_Once(p) ==
  /\ p \notin prompts
  /\ prompts' = prompts \cup {p}
  /\ unanswered' = unanswered \cup {p}
  /\ \/ prompts = {} /\ queued' = queued + 1
     \/ prompts # {} /\ UNCHANGED queued
  /\ UNCHANGED <<consumer, emitted>>

(* The select with a default case: a full channel drops the token. *)
EmitLoginPromptVisible(p) ==
  /\ p \notin prompts
  /\ prompts' = prompts \cup {p}
  /\ unanswered' = unanswered \cup {p}
  /\ \/ queued < Capacity /\ queued' = queued + 1
     \/ queued = Capacity /\ UNCHANGED queued
  /\ UNCHANGED <<consumer, emitted>>

(* Mutant: the token stays in the channel. *)
Receive_Peeks ==
  /\ consumer = "receive" /\ queued > 0
  /\ consumer' = "sleep"
  /\ UNCHANGED <<queued, prompts, unanswered, emitted>>

Receive ==
  /\ consumer = "receive" /\ queued > 0
  /\ queued' = queued - 1
  /\ consumer' = "sleep"
  /\ UNCHANGED <<prompts, unanswered, emitted>>

Wake ==
  /\ consumer = "sleep"
  /\ consumer' = "emit"
  /\ UNCHANGED <<queued, prompts, unanswered, emitted>>

EmitSessionStateChanged ==
  /\ consumer = "emit"
  /\ emitted' = emitted + 1
  /\ unanswered' = {}
  /\ consumer' = "receive"
  /\ UNCHANGED <<queued, prompts>>

Consume == Receive \/ Wake \/ EmitSessionStateChanged

Next == (\E p \in Prompt : EmitLoginPromptVisible(p)) \/ Consume

(* The consumer is scheduled and its sleep ends.  All prompts may have     *)
(* been answered, then nothing happens any more.                           *)
Spec == Init /\ [][Next]_vars /\ WF_vars(Consume)

-----------------------------------------------------------------------------
(* Properties.                                                             *)

(* Dropping a token loses nothing: while a prompt is unanswered, a signal  *)
(* is on its way, as a token or with the consumer.                         *)
AnswerUnderWay == unanswered # {} => queued > 0 \/ consumer # "receive"

(* No signal without a prompt of its own: never more of them than prompts, *)
(* counting the tokens that will still become one.                         *)
OneSignalPerPrompt ==
  emitted + queued + (IF consumer = "receive" THEN 0 ELSE 1) <= Cardinality(prompts)

(* Every prompt is eventually followed by a signal, which answers all that *)
(* came before it.                                                         *)
EveryPromptAnswered == unanswered # {} ~> unanswered = {}
=============================================================================
