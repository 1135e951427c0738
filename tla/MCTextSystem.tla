----------------------------- MODULE MCTextSystem -----------------------------
(* Instances of TextSystem for TLC.                                           *)
EXTENDS TextSystem

Said(chars) == [name |-> FALSE, chars |-> chars]
Named(chars) == [name |-> TRUE, chars |-> chars]

\* no text begins with punctuation
MCTexts == {Named(<<"plain", "kinsoku">>)}

\* a line break, a change of colour and a voice
MCCommands ==
  {<<[command |-> "hard_break"], [command |-> "font_colour", colour |-> 1], [command |-> "koe_marker"]>>}

\* a pause starts a new paragraph on the second window only
SecondOnly == [w \in Windows |-> w = 1]
=============================================================================
