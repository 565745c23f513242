--------------------------- MODULE MCOverlayBuild ---------------------------
(* Six configurations over four rules: the generic board without overlays,   *)
(* which is what an empty file stands for, one or two overlays, two that     *)
(* share a pin, and two rules of the same file name.                         *)
EXTENDS OverlayBuild

MCConfigs == {"empty", "none", "one", "two", "clash", "same"}
MCNormOf == [c \in MCConfigs |-> IF c = "empty" THEN "none" ELSE c]
MCGuesses == {"none", "one"}
MCRules == {"uart1", "uart2", "i2c2", "other/i2c2"}
MCOutputOf == [r \in MCRules |-> IF r = "other/i2c2" THEN "i2c2" ELSE r]
MCActiveOf ==
    [c \in MCConfigs |-> CASE c \in {"empty", "none"} -> {}
                           [] c = "one" -> {"uart1"}
                           [] c = "two" -> {"uart2", "i2c2"}
                           [] c = "clash" -> {"uart1", "uart2"}
                           [] c = "same" -> {"i2c2", "other/i2c2"}]
=============================================================================
