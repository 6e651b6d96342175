------------------------------- MODULE KVView -------------------------------
(***************************************************************************)
(* What the KV cache promises the requests that use it: each request has   *)
(* a private view of its own cached context, wherever its blocks lie and   *)
(* whoever shares them.  view[s] is the sequence of KV entries that the    *)
(* attention of s finds; entry p is the token prefix it was computed from. *)
(* A correct entry p of s is the first p tokens of s.                      *)
(*                                                                         *)
(* One step concerns one request: nothing another request does, and no     *)
(* transfer between tiers, changes a view.                                 *)
(***************************************************************************)
EXTENDS Naturals, Sequences

CONSTANTS Seqs, Token, Prompt

VARIABLES
  text,     \* the prompt and the tokens sampled so far
  view,     \* the KV entries each request finds
  over      \* the requests that were answered

vars == <<text, view, over>>

FirstOf(s, n) == SubSeq(text[s], 1, n)
Context(s, n) == [p \in 1 .. n |-> FirstOf(s, p)]

Init == /\ text = Prompt
        /\ view = [s \in Seqs |-> << >>]
        /\ over = {}

(* More of the context becomes available: a cached prefix is attached, or *)
(* a chunk of the prompt was computed.                                     *)
Learn(s, n) ==
  /\ s \notin over /\ n > Len(view[s])
  /\ view' = [view EXCEPT ![s] = Context(s, n)]
  /\ UNCHANGED <<text, over>>

(* A token is sampled: only with the KV of the whole text in view. *)
Answer(s, t) ==
  /\ s \notin over
  /\ view' = [view EXCEPT ![s] = Context(s, Len(text[s]))]
  /\ text' = [text EXCEPT ![s] = Append(@, t)]
  /\ UNCHANGED over

(* The last token is sampled and the view is given up. *)
Finish(s, t) ==
  /\ s \notin over
  /\ text' = [text EXCEPT ![s] = Append(@, t)]
  /\ view' = [view EXCEPT ![s] = << >>]
  /\ over' = over \cup {s}

(* The view is given up to be computed again. *)
Forget(s) ==
  /\ s \notin over
  /\ view' = [view EXCEPT ![s] = << >>]
  /\ UNCHANGED <<text, over>>

Next == \E s \in Seqs :
  \/ \E n \in 1 .. Len(text[s]) : Learn(s, n)
  \/ \E t \in Token : Answer(s, t) \/ Finish(s, t)
  \/ Forget(s)

Spec == Init /\ [][Next]_vars
=============================================================================
