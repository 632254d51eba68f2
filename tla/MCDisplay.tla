----------------------------- MODULE MCDisplay -----------------------------
(* Instances of Display for TLC: lines of two characters, a text that is   *)
(* shorter than the line and others that fill it.                          *)
EXTENDS Display

Lengths ==
    [t \in WsTexts \cup MqttTexts \cup MainTexts \cup {Title, Booting} |-> IF t = "short" THEN 1 ELSE 3]
=============================================================================
