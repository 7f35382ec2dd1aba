---------------------------- MODULE MCMailTransfer ----------------------------
(* MailTransfer for TLC: a byte has three bits and a literal one.  All short  *)
(* texts, alone or two of them, some that are longer than the window, and     *)
(* some whose spaces go on those that the window is filled with.              *)
EXTENDS MailTransfer

Texts(n) == UNION {[1..k -> 0..1] : k \in 0..n}
LongTexts ==
  {[i \in 1..40 |-> ((a * i * i + b * i) \div m) % 2] : a \in 1..4, b \in 3..4, m \in {5, 7}}
\* A space, then a gap without one, then as many spaces as a match can have.
GapTexts == {[i \in 1..n |-> IF i = 1 \/ n - i <= F THEN Space ELSE 0] : n \in 12..18}
MCMails == {<<t>> : t \in Texts(8) \cup LongTexts \cup GapTexts} \cup Texts(1) \X Texts(1)
MCTitle == <<5>>
=============================================================================
