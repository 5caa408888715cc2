-------------------------------- MODULE Rules --------------------------------
(***************************************************************************)
(* The rules of the game: when a cartela wins, and whether the ball called *)
(* last made it win.                                                       *)
(*                                                                         *)
(* A cartela is a board of 5 by 5 cells around a free one; a number called *)
(* is the cell that has it, or none.  The shapes a rule asks for are sets  *)
(* of cells.  A state is what GameRuleEvaluationService.evaluate is called *)
(* with, a rule and the numbers called so far, and what it returns; a step *)
(* calls one more number.                                                  *)
(***************************************************************************)
EXTENDS Integers, Sequences, FiniteSets, FiniteSetsExt, TLC

CONSTANTS
    RuleKeys,   \* rules considered
    Starts,     \* sets of cells whose numbers may be called at the start
    Calls,      \* cells whose numbers may be called from then on
    Elsewhere   \* a number the cartela does not have

Side == 0 .. 4
Cells == Side \X Side
FREE_CENTER == <<2, 2>>

ASSUME RulesAssumption ==
    /\ Calls \subseteq Cells \ {FREE_CENTER}
    /\ \A S \in Starts : S \subseteq Cells \ {FREE_CENTER}
    /\ Elsewhere \notin Cells

VARIABLES
    rule,       \* key of the rule
    called,     \* cells with a called number
    latest,     \* the number called last
    result      \* GameRuleEvaluationResult for them

evaluation == <<rule, called, latest, result>>

(***************************************************************************)
(* Shapes.                                                                 *)
(***************************************************************************)
Row(r) == {<<r, c>> : c \in Side}
Column(c) == {<<r, c>> : r \in Side}
Main == {<<i, i>> : i \in Side}
Anti == {<<i, 4 - i>> : i \in Side}
Rows == {Row(r) : r \in Side}
Columns == {Column(c) : c \in Side}
Diagonals == {Main, Anti}
Lines == Rows \cup Columns \cup Diagonals
Corners == {0, 4} \X {0, 4}

\* Every place on the board of shapes drawn in a square of side n.
Windows(shapes, n) ==
    {{<<cell[1] + r, cell[2] + c>> : cell \in shape} :
        shape \in shapes, r \in 0 .. (5 - n), c \in 0 .. (5 - n)}

\* The four right triangles in a square of side n.
Triangles(n) ==
    LET square == (0 .. (n - 1)) \X (0 .. (n - 1))
    IN  {{p \in square : p[1] + p[2] <= n - 1}, {p \in square : p[1] <= p[2]},
         {p \in square : p[1] >= p[2]}, {p \in square : p[1] + p[2] >= n - 1}}

Squares2x2 == Windows({(0 .. 1) \X (0 .. 1)}, 2)
BIG_L_VARIANTS == {Row(r) \cup Column(c) : r, c \in {0, 4}}
BIG_T_VARIANTS == {Row(r) \cup Column(2) : r \in {0, 4}} \cup {Row(2) \cup Column(c) : c \in {0, 4}}
BIG_H_VARIANTS ==
    LET inner == 1 .. 3
    IN  {Column(0) \cup Column(4) \cup {<<2, c>> : c \in inner},
         Row(0) \cup Row(4) \cup {<<r, 2>> : r \in inner}}
BIG_CROSS_CELLS == Row(2) \cup Column(2)
RIGHT_SHAPE_VARIANTS ==
    {{p \in Cells : (p[1] - q[1]) ^ 2 + (p[2] - q[2]) ^ 2 <= 1} : q \in Corners}
HALF_HOUSE_4_DIRECTION == Triangles(5)
HALF_HOUSE_10_DIRECTION ==
    HALF_HOUSE_4_DIRECTION \cup {UNION {Row(r + i) : i \in 0 .. 2} : r \in 0 .. 2}
                           \cup {UNION {Column(c + i) : i \in 0 .. 2} : c \in 0 .. 2}
RECTANGLE_VARIANTS ==
    {(r .. r + 1) \X (c .. c + 2) : r \in 0 .. 3, c \in 0 .. 2} \cup
    {(r .. r + 2) \X (c .. c + 1) : r \in 0 .. 2, c \in 0 .. 3}
SMALL_T_VARIANTS ==
    LET bar(i) == {<<i, c>> : c \in 0 .. 2}
        post(i) == {<<r, i>> : r \in 0 .. 2}
    IN  Windows({bar(0) \cup post(1), bar(2) \cup post(1), post(0) \cup bar(1), post(2) \cup bar(1)}, 3)
TRIANGLE_6_VARIANTS == Windows(Triangles(3), 3)
TRIANGLE_4X4_VARIANTS == Windows(Triangles(4), 4)
SMALL_CROSS_VARIANTS ==
    Windows({{<<1, c>> : c \in 0 .. 2} \cup {<<r, 1>> : r \in 0 .. 2}}, 3)
BIG_N_OR_Z_VARIANTS == {Column(0) \cup Column(4) \cup Main, Row(0) \cup Row(4) \cup Anti}
BIG_M_OR_W_VARIANTS ==
    {Column(0) \cup Column(4) \cup {<<r, 1>>, FREE_CENTER, <<r, 3>>} : r \in {1, 3}} \cup
    {Row(0) \cup Row(4) \cup {<<1, c>>, FREE_CENTER, <<3, c>>} : c \in {1, 3}}
ONE_ANGLE_VARIANTS ==
    {Row(q[1]) \cup Column(q[2]) \cup (IF q[1] = q[2] THEN Main ELSE Anti) : q \in Corners}
SMALL_X_CELLS == Main \cup Anti

Shapes == [
    LINE |-> Lines, ROW |-> Rows, COLUMN |-> Columns, DIAGONAL |-> Diagonals,
    LINE_TOUCHES_FREE |-> {l \in Lines : FREE_CENTER \in l},
    LINES_WITHOUT_FREE |-> {l \in Lines : FREE_CENTER \notin l},
    SQUARE_2X2 |-> Squares2x2, BIG_L |-> BIG_L_VARIANTS, BIG_T |-> BIG_T_VARIANTS,
    BIG_H |-> BIG_H_VARIANTS, BIG_CROSS |-> {BIG_CROSS_CELLS}, FOUR_CORNERS |-> {Corners},
    RIGHT_SHAPE |-> RIGHT_SHAPE_VARIANTS,
    HALF_HOUSE_10_DIRECTION |-> HALF_HOUSE_10_DIRECTION,
    HALF_HOUSE_4_DIRECTION |-> HALF_HOUSE_4_DIRECTION,
    RECTANGLE_2X3_OR_3X2 |-> RECTANGLE_VARIANTS, SMALL_T |-> SMALL_T_VARIANTS,
    SMALL_CROSS |-> SMALL_CROSS_VARIANTS, TRIANGLE_6 |-> TRIANGLE_6_VARIANTS,
    TRIANGLE_4X4 |-> TRIANGLE_4X4_VARIANTS, CORNER |-> {{q} : q \in Corners}]

(***************************************************************************)
(* Rules.  A combination asks for so many shapes of each kind; shapes may  *)
(* overlap (ALLOW), not at all (DISALLOW), or as the groups say (MIXED).   *)
(***************************************************************************)
Requirement(kind, count) ==
    [kind |-> kind, count |-> count, group |-> "", mustNotOverlapGroups |-> {},
     mustNotBeContainedInGroups |-> {}, touchesFree |-> BOOLEAN, allowDiagonal |-> TRUE,
     parallelOnly |-> FALSE]
WithFree(n) == [Requirement("LINE", n) EXCEPT !.touchesFree = {TRUE}]
WithoutFree(n) == [Requirement("LINE", n) EXCEPT !.touchesFree = {FALSE}]
Parallel(n) == [Requirement("LINE", n) EXCEPT !.parallelOnly = TRUE]
Grouped(kind, count, group) == [Requirement(kind, count) EXCEPT !.group = group]
Apart(kind, count, group, groups) ==
    [Grouped(kind, count, group) EXCEPT !.mustNotOverlapGroups = groups]

Combo(overlap, requires) == [type |-> "COMBO", overlap |-> overlap, requires |-> requires]
Group(patterns) == [type |-> "PATTERN_GROUP", patterns |-> patterns]

LineRules ==
    LET Q(k, n) == Requirement(k, n)
        Allow(q) == Combo("ALLOW", q)
    IN [TWO_COLUMNS_TWO_ROWS_ONE_DIAGONAL |-> Allow(<<Q("COLUMN", 2), Q("ROW", 2), Q("DIAGONAL", 1)>>),
        FOUR_SQUARES |-> Combo("DISALLOW", <<Q("SQUARE_2X2", 4)>>),
        THREE_COLUMNS_ONE_DIAGONAL |-> Allow(<<Q("COLUMN", 3), Q("DIAGONAL", 1)>>),
        BIG_T_TWO_SQUARES |-> Combo("DISALLOW", <<Q("BIG_T", 1), Q("SQUARE_2X2", 2)>>),
        FIVE_LINES |-> Allow(<<Q("LINE", 5)>>),
        THREE_LINES_WITHOUT_FREE |-> Allow(<<WithoutFree(3)>>),
        BIG_L_ONE_DIAGONAL |-> Allow(<<Q("BIG_L", 1), Q("DIAGONAL", 1)>>),
        TWO_ROWS_ONE_SQUARE |-> Combo("DISALLOW", <<Q("ROW", 2), Q("SQUARE_2X2", 1)>>),
        COLUMNS_ROWS_DIAGONAL |-> Allow(<<Q("COLUMN", 1), Q("ROW", 1), Q("DIAGONAL", 1)>>),
        SEVEN_LINES |-> Allow(<<Q("LINE", 7)>>),
        THREE_SQUARES |-> Combo("DISALLOW", <<Q("SQUARE_2X2", 3)>>),
        THREE_LINES_TOUCH_FREE |-> Allow(<<WithFree(3)>>),
        TWO_COLUMNS_TWO_ROWS |-> Allow(<<Q("COLUMN", 2), Q("ROW", 2)>>),
        ONE_LINE_WITH_FREE_TWO_LINES_WITHOUT_FREE |-> Allow(<<WithFree(1), WithoutFree(2)>>),
        THREE_LINES |-> Allow(<<Q("LINE", 3)>>)]

MixedRules ==
    LET Q(k, n) == Requirement(k, n)
        Allow(q) == Combo("ALLOW", q)
    IN [THREE_ROWS_ONE_DIAGONAL |-> Allow(<<Q("ROW", 3), Q("DIAGONAL", 1)>>),
        TWO_DIAGONALS_ONE_ROW |-> Allow(<<Q("DIAGONAL", 2), Q("ROW", 1)>>),
        THREE_PARALLEL_LINES |-> Combo("DISALLOW", <<Parallel(3)>>),
        FOUR_LINES_WITHOUT_DIAGONAL |-> Allow(<<[Q("LINE", 4) EXCEPT !.allowDiagonal = FALSE]>>),
        BIG_CROSS_ONE_DIAGONAL |-> Allow(<<Q("BIG_CROSS", 1), Q("DIAGONAL", 1)>>),
        SIX_LINES |-> Allow(<<Q("LINE", 6)>>),
        THREE_COLUMNS |-> Allow(<<Q("COLUMN", 3)>>),
        FOUR_PARALLEL_LINES |-> Combo("DISALLOW", <<Parallel(4)>>),
        FOUR_ANGLES_TWO_SQUARES |-> Combo("MIXED", <<Grouped("FOUR_CORNERS", 1, "ANGLES"),
            Apart("SQUARE_2X2", 2, "SQUARES", {"SQUARES", "ANGLES"})>>),
        FOUR_LINES |-> Allow(<<Q("LINE", 4)>>),
        THREE_ROWS |-> Allow(<<Q("ROW", 3)>>),
        TWO_ROWS_ONE_COLUMN |-> Allow(<<Q("ROW", 2), Q("COLUMN", 1)>>),
        TWO_DIAGONALS |-> Allow(<<Q("DIAGONAL", 2)>>),
        ONE_COLUMN_ONE_ROW_ONE_SQUARE |-> Combo("MIXED", <<Grouped("COLUMN", 1, "LINES"),
            Grouped("ROW", 1, "LINES"), Apart("SQUARE_2X2", 1, "", {"LINES"})>>),
        BIG_T_ONE_DIAGONAL |-> Allow(<<Q("BIG_T", 1), Q("DIAGONAL", 1)>>),
        BIG_H |-> Allow(<<Q("BIG_H", 1)>>)]

ShapeRules ==
    LET Q(k, n) == Requirement(k, n)
        Disjoint(q) == Combo("DISALLOW", q)
    IN [THREE_RECTANGLES |-> Disjoint(<<Q("RECTANGLE_2X3_OR_3X2", 3)>>),
        BIG_T_TWO_LINES |-> Combo("MIXED", <<Grouped("BIG_T", 1, "BIG_T"),
            [Grouped("LINE", 2, "LINES") EXCEPT !.mustNotBeContainedInGroups = {"BIG_T"}]>>),
        ONE_LINE_TWO_TRIANGLES |-> Disjoint(<<Q("LINE", 1), Q("TRIANGLE_6", 2)>>),
        SMALL_T_TWO_SQUARES |-> Disjoint(<<Q("SMALL_T", 1), Q("SQUARE_2X2", 2)>>),
        ONE_LINE_TRIANGLE_4X4 |-> Disjoint(<<Q("LINE", 1), Q("TRIANGLE_4X4", 1)>>),
        BIG_L_ONE_RECTANGLE |-> Disjoint(<<Q("BIG_L", 1), Q("RECTANGLE_2X3_OR_3X2", 1)>>),
        TWO_ANGLES_THREE_LINES |-> Combo("MIXED", <<Grouped("LINE", 3, "LINES"),
            Apart("CORNER", 2, "ANGLES", {"LINES"})>>),
        BIG_T_ONE_DIAGONAL_ONE_SQUARE |-> Combo("MIXED", <<Grouped("BIG_T", 1, "BIG_T"),
            Grouped("DIAGONAL", 1, "DIAGONAL"),
            Apart("SQUARE_2X2", 1, "SQUARE", {"BIG_T", "DIAGONAL"})>>),
        TWO_LINES_TWO_SQUARES |-> Combo("MIXED", <<Grouped("LINE", 2, "LINES"),
            Apart("SQUARE_2X2", 2, "SQUARES", {"SQUARES", "LINES"})>>),
        ONE_LINE_THREE_SQUARES |-> Disjoint(<<Q("LINE", 1), Q("SQUARE_2X2", 3)>>)]

MoreRules ==
    LET Q(k, n) == Requirement(k, n)
        Allow(q) == Combo("ALLOW", q)
        Disjoint(q) == Combo("DISALLOW", q)
    IN [EIGHT_LINES |-> Allow(<<Q("LINE", 8)>>),
        THREE_ROWS_TWO_COLUMNS |-> Allow(<<Q("ROW", 3), Q("COLUMN", 2)>>),
        FOUR_ANGLES_TWO_RECTANGLES |-> Disjoint(<<Q("FOUR_CORNERS", 1), Q("RECTANGLE_2X3_OR_3X2", 2)>>),
        TWO_PARALLEL_LINES_TWO_DIAGONALS |-> Allow(<<Parallel(2), Q("DIAGONAL", 2)>>),
        THREE_PARALLEL_LINES_ONE_DIAGONAL |-> Allow(<<Parallel(3), Q("DIAGONAL", 1)>>),
        BIG_T_THREE_SQUARES |-> Disjoint(<<Q("BIG_T", 1), Q("SQUARE_2X2", 3)>>),
        THREE_SMALL_T |-> Disjoint(<<Q("SMALL_T", 3)>>),
        BIG_CROSS_ONE_SQUARE |-> Disjoint(<<Q("BIG_CROSS", 1), Q("SQUARE_2X2", 1)>>),
        TWO_LINES_FREE_TWO_WITHOUT_FREE |-> Allow(<<WithFree(2), WithoutFree(2)>>),
        SMALL_CROSS_TRIANGLE_SQUARE |->
            Disjoint(<<Q("SMALL_CROSS", 1), Q("TRIANGLE_6", 1), Q("SQUARE_2X2", 1)>>),
        FOUR_LINES_WITHOUT_FREE |-> Allow(<<WithoutFree(4)>>),
        THREE_SQUARES_TWO_ANGLES |-> Disjoint(<<Q("SQUARE_2X2", 3), Q("CORNER", 2)>>)]

\* Names of the product for some of them.
MIX_KEY_TO_COMBO_RULE == [
    MIX_01 |-> "TWO_COLUMNS_TWO_ROWS_ONE_DIAGONAL", MIX_02 |-> "FOUR_SQUARES",
    MIX_03 |-> "THREE_COLUMNS_ONE_DIAGONAL", MIX_04 |-> "BIG_T_TWO_SQUARES",
    MIX_05 |-> "FIVE_LINES", MIX_06 |-> "THREE_LINES_WITHOUT_FREE",
    MIX_07 |-> "BIG_L_ONE_DIAGONAL", MIX_08 |-> "TWO_ROWS_ONE_SQUARE",
    MIX_09 |-> "COLUMNS_ROWS_DIAGONAL", MIX_10 |-> "SEVEN_LINES", MIX_11 |-> "THREE_SQUARES",
    MIX_12 |-> "THREE_LINES_TOUCH_FREE", MIX_13 |-> "TWO_COLUMNS_TWO_ROWS",
    MIX_14 |-> "ONE_LINE_WITH_FREE_TWO_LINES_WITHOUT_FREE"]
MixRules == [mix \in DOMAIN MIX_KEY_TO_COMBO_RULE |-> LineRules[MIX_KEY_TO_COMBO_RULE[mix]]]

\* Rules outside the catalogue of combinations, some of them withdrawn but still
\* played in slots that have them.
OwnRules == [
    FULL_HOUSE |-> [type |-> "FULL_HOUSE"],
    HALF_HOUSE |-> [type |-> "ROWS_REQUIRED", count |-> 3],
    LINE |-> [type |-> "ANY_OF", lines |-> Lines], ROWS |-> [type |-> "ANY_OF", lines |-> Rows],
    COLUMNS |-> [type |-> "ANY_OF", lines |-> Columns],
    DIAGONAL |-> [type |-> "ANY_OF", lines |-> Diagonals],
    LINE_TOUCHES_FREE |-> [type |-> "ANY_OF", lines |-> Shapes["LINE_TOUCHES_FREE"]],
    LINES_WITHOUT_FREE |-> [type |-> "ANY_OF", lines |-> Shapes["LINES_WITHOUT_FREE"]],
    FOUR_CORNERS |-> Group({Corners}), BIG_T |-> Group(BIG_T_VARIANTS),
    BIG_L_SHAPE |-> Group(BIG_L_VARIANTS), BIG_CROSS |-> Group({BIG_CROSS_CELLS}),
    SMALL_T |-> Group({{<<1, 1>>, <<1, 2>>, <<1, 3>>, <<2, 2>>, <<3, 2>>}}),
    SMALL_X |-> Group({SMALL_X_CELLS}),
    SMALL_CROSS |-> Group({{<<1, 2>>, <<2, 1>>, <<2, 2>>, <<2, 3>>, <<3, 2>>}}),
    HALF_HOUSE_10_DIRECTIONS |-> Combo("ALLOW", <<Requirement("HALF_HOUSE_10_DIRECTION", 1)>>),
    HALF_HOUSE_4_DIRECTIONS |-> Combo("ALLOW", <<Requirement("HALF_HOUSE_4_DIRECTION", 1)>>),
    TWO_ROWS_ONE_SQUARE_ALT |-> LineRules["TWO_ROWS_ONE_SQUARE"],
    BIG_N_OR_Z |-> Group(BIG_N_OR_Z_VARIANTS), BIG_M_OR_W |-> Group(BIG_M_OR_W_VARIANTS),
    ONE_ANGLE_ROW_COLUMN_DIAGONAL |-> Group(ONE_ANGLE_VARIANTS)]

RULE_PATTERN_DEFINITIONS ==
    OwnRules @@ LineRules @@ MixedRules @@ ShapeRules @@ MoreRules @@ MixRules

(***************************************************************************)
(* A rule is kept in its row as JSON and parsed for every claim; what the  *)
(* parser does not know is dropped from it.                                *)
(***************************************************************************)
\* Faulty variant: a kind added later is missing in the parser's list.
ValidKindsOutdated == (DOMAIN Shapes) \ {"CORNER"}
ValidKinds == DOMAIN Shapes

ParsedRequirements(requires) ==
    LET known == {i \in DOMAIN requires :
                    requires[i].kind \in ValidKinds /\ requires[i].count > 0}
    IN  [k \in 1 .. Cardinality(known) |->
           requires[CHOOSE i \in known : Cardinality(known \cap (1 .. i)) = k]]

\* parseGameRulePattern, else the definition of that key.
RulePattern(key) ==
    LET pattern == RULE_PATTERN_DEFINITIONS[key]
    IN  IF pattern.type = "COMBO" /\ ParsedRequirements(pattern.requires) # <<>>
        THEN [pattern EXCEPT !.requires = ParsedRequirements(@)]
        ELSE pattern

(***************************************************************************)
(* Completed shapes.                                                       *)
(***************************************************************************)
Marked(cells) == cells \cup {FREE_CENTER}
Complete(patterns, cells) == {p \in patterns : p \subseteq Marked(cells)}
Overlap(p, q) == p \cap q # {}

\* selectCompletedPatternsForDisplay: n of them, those with the latest number
\* first; without n all, or one if there is a latest number.
WithLatest(patterns, last) == {p \in patterns : last \in p}
ShownOf(patterns, n, last) ==
    LET first == WithLatest(patterns, last)
        k == Min({n, Cardinality(patterns)})
    IN  CHOOSE S \in SUBSET patterns :
          Cardinality(S) = k /\ (S \subseteq first \/ first \subseteq S)
Shown(patterns, last) ==
    IF last = Elsewhere \/ patterns = {} THEN patterns ELSE ShownOf(patterns, 1, last)

(***************************************************************************)
(* Combinations (combo-solver.ts).                                         *)
(***************************************************************************)
MatchesConstraints(q, p) ==
    /\ (FREE_CENTER \in p) \in q.touchesFree
    /\ q.allowDiagonal \/ p \notin Diagonals

\* All sets of n of these candidates.
ChooseCombinations(candidates, n) ==
    LET upTo[k \in 0 .. n] ==
          IF k = 0 THEN {{}}
          ELSE UNION {{s \cup {p} : p \in candidates \ s} : s \in upTo[k - 1]}
    IN  upTo[n]

\* Shapes completed for a requirement.  Lines of a rule with parallel lines are
\* all rows, or all columns.
Candidates(q, cells, lines) ==
    {p \in Complete(Shapes[q.kind], cells) :
        MatchesConstraints(q, p) /\ (q.kind = "LINE" => p \in lines)}

LineSets(combo) ==
    IF \E i \in DOMAIN combo.requires : combo.requires[i].parallelOnly
    THEN {Rows, Columns} ELSE {Lines}

Picks(q, patterns) == {[kind |-> q.kind, cells |-> p, group |-> q.group] : p \in patterns}

\* What is chosen next must go with what was chosen for the requirements before.
Disjoint(picks) == \A x, y \in picks : x # y => ~Overlap(x.cells, y.cells)
MixedFits(selected, q, new) ==
    \A x \in selected, y \in new :
        /\ x.group \in q.mustNotOverlapGroups => ~Overlap(x.cells, y.cells)
        /\ x.group \in q.mustNotBeContainedInGroups => ~(y.cells \subseteq x.cells)
Fits(combo, selected, q, new) ==
    CASE combo.overlap = "ALLOW" -> TRUE
      [] combo.overlap = "DISALLOW" -> Disjoint(selected \cup new)
      [] combo.overlap = "MIXED" -> MixedFits(selected, q, new)

\* findAllWinningCombinations, requirement by requirement.
Extend(combo, cells, lines, selections, q) ==
    LET choices == ChooseCombinations(Candidates(q, cells, lines), q.count)
    IN  UNION {{s \cup Picks(q, c) : c \in {c \in choices : Fits(combo, s, q, Picks(q, c))}} :
               s \in selections}
Selections(combo, cells, lines) ==
    LET upTo[i \in 0 .. Len(combo.requires)] ==
          IF i = 0 THEN {{}}
          ELSE Extend(combo, cells, lines, upTo[i - 1], combo.requires[i])
    IN  upTo[Len(combo.requires)]
WinningCombinations(combo, cells) ==
    UNION {Selections(combo, cells, lines) : lines \in LineSets(combo)}

\* Faulty variant: exactly the number asked for.
MinimumRuleSatisfiedExactly(combo, cells) ==
    IF combo.overlap = "ALLOW" /\ LineSets(combo) = {Lines}
    THEN \A i \in DOMAIN combo.requires :
           LET q == combo.requires[i] IN Cardinality(Candidates(q, cells, Lines)) = q.count
    ELSE WinningCombinations(combo, cells) # {}

\* isMinimumRuleSatisfied
MinimumRuleSatisfied(combo, cells) ==
    IF combo.overlap = "ALLOW" /\ LineSets(combo) = {Lines}
    THEN \A i \in DOMAIN combo.requires :
           LET q == combo.requires[i] IN Cardinality(Candidates(q, cells, Lines)) >= q.count
    ELSE WinningCombinations(combo, cells) # {}

Uses(combination, last) == \E x \in combination : last \in x.cells

\* Faulty variant: the combination found first, without regard to the latest.
PreferredFirst(combinations, last) == CHOOSE c \in combinations : TRUE
Preferred(combinations, last) ==
    CHOOSE c \in combinations :
        Uses(c, last) \/ \A d \in combinations : ~Uses(d, last)

(***************************************************************************)
(* Evaluation.                                                             *)
(***************************************************************************)
Verdict(won, byLatest, shown) ==
    [isWinner |-> won, completedByLatestNumber |-> byLatest, completedPatterns |-> shown]
Lost == Verdict(FALSE, FALSE, {})

ByLatest(patterns, last) == WithLatest(patterns, last) # {}

\* Faulty variant: the numbers before the latest still have it.
BeforeIncluding(cells, last) == cells
Before(cells, last) == cells \ {last}

EvaluateRows(count, all, cells, last) ==
    LET rows == Complete(Rows, cells)
        won == Cardinality(rows) >= count
    IN  Verdict(won,
                won /\ Cardinality(Complete(Rows, Before(cells, last))) < count
                    /\ ByLatest(rows, last),
                IF won /\ ~all THEN ShownOf(rows, count, last) ELSE rows)

EvaluatePatterns(patterns, cells, last) ==
    LET shown == Shown(Complete(patterns, cells), last)
    IN  Verdict(shown # {}, ByLatest(shown, last), shown)

EvaluateGroup(patterns, cells, last) ==
    LET shown == ShownOf(Complete(patterns, cells), 1, last)
    IN  Verdict(shown # {}, ByLatest(shown, last), shown)

EvaluateCombo(combo, cells, last) ==
    IF ~MinimumRuleSatisfied(combo, cells) THEN Lost
    ELSE LET c == Preferred(WinningCombinations(combo, cells), last)
         IN  Verdict(TRUE, Uses(c, last), c)

Evaluate(pattern, cells, last) ==
    CASE pattern.type = "FULL_HOUSE" -> EvaluateRows(5, TRUE, cells, last)
      [] pattern.type = "ROWS_REQUIRED" -> EvaluateRows(pattern.count, FALSE, cells, last)
      [] pattern.type = "ANY_OF" -> EvaluatePatterns(pattern.lines, cells, last)
      [] pattern.type = "PATTERN_GROUP" -> EvaluateGroup(pattern.patterns, cells, last)
      [] pattern.type = "COMBO" -> EvaluateCombo(pattern, cells, last)

(***************************************************************************)
(* The specification.                                                      *)
(***************************************************************************)
EvaluateInit ==
    /\ rule \in RuleKeys
    /\ called \in Starts
    /\ latest = Elsewhere
    /\ result = Evaluate(RulePattern(rule), called, latest)

Call(n) ==
    /\ called' = called \cup ({n} \ {Elsewhere})
    /\ latest' = n
    /\ result' = Evaluate(RulePattern(rule), called', latest')
    /\ UNCHANGED rule

EvaluateNext == \E n \in (Calls \ called) \cup {Elsewhere} : Call(n)

EvaluateSpec == EvaluateInit /\ [][EvaluateNext]_evaluation

(***************************************************************************)
(* Definitions the solver can play.                                        *)
(***************************************************************************)
Requirements ==
    [kind : DOMAIN Shapes, count : Nat \ {0}, group : STRING,
     mustNotOverlapGroups : SUBSET STRING, mustNotBeContainedInGroups : SUBSET STRING,
     touchesFree : SUBSET BOOLEAN, allowDiagonal : BOOLEAN, parallelOnly : BOOLEAN]
Combos == [type : {"COMBO"}, overlap : {"ALLOW", "DISALLOW", "MIXED"}, requires : Seq(Requirements)]

\* A requirement keeps its shapes apart only from groups of requirements before
\* it, since the solver compares them with what it has chosen already.
EarlierGroupsOnly(combo) ==
    \A i, j \in DOMAIN combo.requires :
        LET q == combo.requires[i]
            other == combo.requires[j]
            groups == q.mustNotOverlapGroups \cup q.mustNotBeContainedInGroups
        IN  /\ combo.overlap # "MIXED" => groups = {}
            /\ other.group \in groups => j < i
            /\ i # j /\ q.kind = other.kind /\ q.group = other.group => groups = {}

Playable(pattern) ==
    \/ pattern.type \in {"FULL_HOUSE", "ANY_OF", "PATTERN_GROUP"}
    \/ pattern.type = "ROWS_REQUIRED" /\ pattern.count \in Nat
    \/ pattern \in Combos /\ pattern.requires # <<>> /\ EarlierGroupsOnly(pattern)
PlayableRules == \A key \in RuleKeys : Playable(RULE_PATTERN_DEFINITIONS[key])

(***************************************************************************)
(* Properties.                                                             *)
(***************************************************************************)
\* What a rule says, read from its definition alone: how many shapes, of which
\* kind, and which of them may not overlap, those of one group included.
GroupOf(combo, kind) == {combo.requires[i].group : i \in
                          {i \in DOMAIN combo.requires : combo.requires[i].kind = kind}}
Proves(combo, picks, cells) ==
    /\ \A x \in picks : x.cells \subseteq Marked(cells)
    /\ \E lines \in LineSets(combo) : \A i \in DOMAIN combo.requires :
         LET q == combo.requires[i]
         IN  Cardinality({x \in picks : x.kind = q.kind /\ x.group = q.group
                                        /\ x.cells \in Candidates(q, cells, lines)}) >= q.count
    /\ combo.overlap = "DISALLOW" => Disjoint(picks)
    /\ \A i \in DOMAIN combo.requires :
         LET q == combo.requires[i]
         IN  \A x, y \in picks : /\ x # y /\ y.kind = q.kind /\ y.group = q.group
                                 => /\ x.group \in q.mustNotOverlapGroups => ~Overlap(x.cells, y.cells)
                                    /\ x.group \in q.mustNotBeContainedInGroups
                                         => ~(y.cells \subseteq x.cells)

\* All ways to pick completed shapes in the numbers a combination asks for.
AllPicks(combo, cells) ==
    LET places == DOMAIN combo.requires
        choices(i, lines) ==
            ChooseCombinations(Candidates(combo.requires[i], cells, lines), combo.requires[i].count)
        chosen(lines) == {c \in [places -> UNION {choices(i, lines) : i \in places}] :
                            \A i \in places : c[i] \in choices(i, lines)}
    IN  UNION {{UNION {Picks(combo.requires[i], c[i]) : i \in places} : c \in chosen(lines)} :
               lines \in LineSets(combo)}

WinsBy(pattern, shown, cells) ==
    CASE pattern.type = "FULL_HOUSE" -> Cells \subseteq Marked(cells)
      [] pattern.type = "ROWS_REQUIRED" -> Cardinality({r \in Rows : r \in shown}) = pattern.count
      [] pattern.type = "ANY_OF" -> \E l \in shown : l \in Complete(pattern.lines, cells)
      [] pattern.type = "PATTERN_GROUP" -> \E p \in shown : p \in Complete(pattern.patterns, cells)
      [] pattern.type = "COMBO" -> Proves(pattern, shown, cells)

MayWin(pattern, cells) ==
    CASE pattern.type = "FULL_HOUSE" -> Cells \subseteq Marked(cells)
      [] pattern.type = "ROWS_REQUIRED" -> \E S \in SUBSET Complete(Rows, cells) : Cardinality(S) = pattern.count
      [] pattern.type = "ANY_OF" -> Complete(pattern.lines, cells) # {}
      [] pattern.type = "PATTERN_GROUP" -> Complete(pattern.patterns, cells) # {}
      [] pattern.type = "COMBO" -> \E picks \in AllPicks(pattern, cells) : Proves(pattern, picks, cells)

\* A cartela wins exactly if shapes are completed as its rule's definition asks,
\* and the shapes shown to the players prove it.
WinsByTheRule ==
    LET pattern == RULE_PATTERN_DEFINITIONS[rule]
    IN  IF result.isWinner THEN WinsBy(pattern, result.completedPatterns, called)
        ELSE ~MayWin(pattern, called)

\* The number that makes a cartela win is a winning number: a claim made at once
\* is not taken for a late one.
WinningNumberCounts ==
    [][~result.isWinner /\ result'.isWinner => result'.completedByLatestNumber]_evaluation

\* No number called takes a win away.
WinStays == [][result.isWinner => result'.isWinner]_evaluation

\* Once it has won, a cartela may be claimed with every number that completes a
\* shape its rule can use.
LaterShapeCounts ==
    [][result.isWinner /\ latest' # Elsewhere =>
         LET pattern == RULE_PATTERN_DEFINITIONS[rule]
         IN  pattern.type = "COMBO"
               /\ (\E c \in WinningCombinations(pattern, called') : Uses(c, latest'))
             => result'.completedByLatestNumber]_evaluation
=============================================================================
