------------------------------ MODULE MCRules ------------------------------
(* Instances of Rules for TLC. *)
EXTENDS Rules

\* Every rule but those that ask for two shapes which a group keeps apart.
MCOwnGroup == {"FOUR_ANGLES_TWO_SQUARES", "TWO_LINES_TWO_SQUARES"}
MCRules == (DOMAIN RULE_PATTERN_DEFINITIONS) \ MCOwnGroup

ASSUME MCPlayable == \A key \in MCRules : Playable(RULE_PATTERN_DEFINITIONS[key])

MCCalls == {<<0, 0>>, <<4, 0>>, <<0, 4>>, <<2, 3>>, <<1, 1>>}
MCStarts == {Cells \ {<<0, 0>>, FREE_CENTER},
             (Row(0) \cup Row(2) \cup Column(1) \cup Anti \cup Column(4)) \ (MCCalls \cup {FREE_CENTER}),
             (Row(0) \cup Row(4) \cup Row(1) \cup Column(0) \cup Main \cup Column(3) \cup {<<2, 1>>}) \ (MCCalls \cup {FREE_CENTER})}
=============================================================================
