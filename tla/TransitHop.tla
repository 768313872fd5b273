----------------------------- MODULE TransitHop -----------------------------
(***************************************************************************)
(* llarp::path::TransitHop, one hop of someone else's path, and the LRSM   *)
(* (LR_StatusMessage) frames the hops fill in, as operators.  A hop is     *)
(*                                                                         *)
(*   state    "none" before the LRCM (LR_CommitMessage), "decrypted" until *)
(*            the logic thread handles it, then "put" in m_TransitPaths or *)
(*            "refused", and "gone" once ExpirePaths erased it             *)
(*   age      of started                                                   *)
(*   forward  "no", "sent" or "failed": the result of forwarding the LRCM  *)
(*            that OnForwardLRCMResult was last told of                    *)
(*   destroy  "no", "queued" (SetSelfDestruct is on its way) or "yes"      *)
(***************************************************************************)
EXTENDS Path, Sequences

NoHop == [state |-> "none", age |-> 0, forward |-> "no", destroy |-> "no"]

\* Mutant: started is not set.
Decrypted_NotStarted == [NoHop EXCEPT !.state = "decrypted", !.age = Lifetime]

\* What HandleDecrypted makes: started now.
Decrypted == [NoHop EXCEPT !.state = "decrypted"]

HopExpired(h) == h.destroy = "yes" \/ h.age >= Lifetime

HopOlder(h) ==
  IF h.state \in {"decrypted", "put"} THEN [h EXCEPT !.age = Older(@, Lifetime)] ELSE h

\* Mutant: the hop's frame goes behind the ones that are there.
AddFrame_AtEnd(frames, k, ok) == Append(frames, [hop |-> k, ok |-> ok])

\* LR_StatusMessage::AddFrame: hop k's record, encrypted with its path key.
AddFrame(frames, k, ok) == <<[hop |-> k, ok |-> ok]>> \o frames

(* Path::HandleLRSM's loop: frame i decrypts with the key of hop i, and    *)
(* the first record that is not a success, or does not decrypt, decides.   *)
Success(frames, n) ==
  \A i \in 1..n : i <= Len(frames) /\ frames[i].hop = i /\ frames[i].ok
=============================================================================
