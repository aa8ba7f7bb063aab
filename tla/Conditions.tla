----------------------------- MODULE Conditions -----------------------------
(* The expressions of conditional nodes: pkg/condition/evaluator.go.          *)
(*                                                                            *)
(* The evaluator has no parser.  It searches the text for " OR ", then for    *)
(* " AND ", then for a comparison operator, longest first, and resolves what  *)
(* is left.  The author of a workflow means a formula: comparisons joined by  *)
(* AND and OR.  Here the author writes a formula term by term, the text is    *)
(* what the formula is written as, and the properties compare what the        *)
(* evaluator makes of the text with what the formula means.                   *)
(*                                                                            *)
(* A text is a sequence of words with spaces between them.                    *)
EXTENDS Integers, Sequences, SequencesExt

CONSTANT
  Authors      \* what authors write with: see IsAuthor

VARIABLES
  author,      \* the author of the expression
  formula,     \* the comparisons: [glue, left, op, right]; op is "none" for a lone operand
  outcome      \* what Evaluate returned: "true", "false", "error"; "panic"; "none" before

vars == <<author, formula, outcome>>

Quote == "'"
TwoCharacter == <<">=", "<=", "==", "!=">>
OneCharacter == <<">", "<">>
Comparisons == {">=", "<=", "==", "!=", ">", "<"}
Logical == {"AND", "OR"}

\* Operands are words, or quoted words, of which none is an operator; `terms` bounds the
\* comparisons in a formula.
IsOperand(o) ==
  /\ o \in Seq(STRING) /\ o # <<>>
  /\ Len(o) > 1 => o[1] = Quote /\ o[Len(o)] = Quote
  /\ \A i \in DOMAIN o : o[i] \notin Comparisons \cup Logical
IsAuthor(a) ==
  a.operators \subseteq Comparisons /\ a.terms \in Nat /\ \A o \in a.operands : IsOperand(o)

\* The context of the execution: n and k are numbers of the request, the texts are names.
Context(word) ==
  CASE word = "n" -> [type |-> "number", text |-> <<"1">>]
    [] word = "k" -> [type |-> "number", text |-> <<"2">>]
    [] word = "s" -> [type |-> "text", text |-> <<"low">>]
    [] word = "x" -> [type |-> "text", text |-> <<"nan">>]
    [] word = "b" -> [type |-> "bool", text |-> <<"false">>]
    [] OTHER -> [type |-> "missing", text |-> <<>>]

\* strconv.ParseFloat, which knows NaN.
Floats == {"1", "2", "nan"}
Number(word) == CASE word = "1" -> 1 [] word = "2" -> 2 [] OTHER -> 0

-----------------------------------------------------------------------------
(* The evaluator *)

\* splitLogical: a logical word counts between spaces, so neither first nor last of what
\* remains.  What is read has parts, and begins the next one.
Cut(expr, word, k, read) ==
  IF expr[k] = word /\ read.begin < k /\ k < Len(expr)
  THEN [parts |-> Append(read.parts, SubSeq(expr, read.begin, k - 1)), begin |-> k + 1]
  ELSE read
SplitUpTo(expr, word) ==
  LET upTo[k \in 0..Len(expr)] ==
        IF k = 0 THEN [parts |-> <<>>, begin |-> 1] ELSE Cut(expr, word, k, upTo[k - 1])
  IN upTo
SplitLogical(expr, word) ==
  LET read == SplitUpTo(expr, word)[Len(expr)]
  IN Append(read.parts, SubSeq(expr, read.begin, Len(expr)))

\* resolveValue.  A lone quote both begins and ends the text: expr[1:0] panics.
ResolveValue(expr) ==
  IF expr # <<>> /\ Head(expr) = Quote /\ Last(expr) = Quote
  THEN IF Len(expr) = 1 THEN [type |-> "panic", text |-> <<>>]
       ELSE [type |-> "text", text |-> SubSeq(expr, 2, Len(expr) - 1)]
  ELSE IF Len(expr) # 1 THEN [type |-> "missing", text |-> <<>>]
  ELSE IF Head(expr) \in {"true", "false"} THEN [type |-> "bool", text |-> expr]
  ELSE IF Head(expr) \in Floats THEN [type |-> "number", text |-> expr]
  ELSE Context(Head(expr))

Broken(value) == value.type \in {"missing", "panic"}
Failure(value) == IF value.type = "panic" THEN "panic" ELSE "error"
Bool(p) == IF p THEN "true" ELSE "false"

\* toFloat64: a text that reads like a number is one.
IsNumber(value) ==
  \/ value.type = "number"
  \/ value.type = "text" /\ Len(value.text) = 1 /\ Head(value.text) \in Floats

\* compareNumbers; every comparison with NaN fails, but for !=.
CompareNumbers(left, op, right) ==
  LET a == Number(left) b == Number(right)
  IN IF "nan" \in {left, right} THEN op = "!="
     ELSE CASE op = ">" -> a > b [] op = "<" -> a < b [] op = ">=" -> a >= b
            [] op = "<=" -> a <= b [] op = "==" -> a = b [] op = "!=" -> a # b

\* Mutant of Compare: on texts every operator but == is taken for !=.
CompareLoose(left, op, right) ==
  IF Broken(left) THEN Failure(left) ELSE IF Broken(right) THEN Failure(right)
  ELSE IF IsNumber(left) /\ IsNumber(right)
  THEN Bool(CompareNumbers(Head(left.text), op, Head(right.text)))
  ELSE Bool((op = "==") = (left.text = right.text))

\* compare: as numbers if both are, otherwise as text, which has no order.
Compare(left, op, right) ==
  IF Broken(left) THEN Failure(left) ELSE IF Broken(right) THEN Failure(right)
  ELSE IF IsNumber(left) /\ IsNumber(right)
  THEN Bool(CompareNumbers(Head(left.text), op, Head(right.text)))
  ELSE CASE op = "==" -> Bool(left.text = right.text)
         [] op = "!=" -> Bool(left.text # right.text)
         [] OTHER -> "error"

\* toBool.
ToBool(value) ==
  CASE value.type = "bool" -> value.text = <<"true">>
    [] value.type = "text" -> value.text \notin {<<>>, <<"false">>}
    [] value.type = "number" -> value.text # <<"0">>

Alone(value) == IF Broken(value) THEN Failure(value) ELSE Bool(ToBool(value))

\* The position of an operator: its first occurrence, if that is not the beginning.
\* A one-character operator also occurs in its two-character form.
Occurs(w, op) == w = op \/ <<op, w>> \in {<<">", ">=">>, <<"<", "<=">>}
OperatorAt(expr, op) ==
  LET at == SelectInSeq(expr, LAMBDA w : Occurs(w, op))
  IN IF at > 1 /\ expr[at] = op THEN at ELSE 0

\* Mutant of the order in which operators are tried: one character first, so that
\* ">=" is found as ">" and its "=" goes to the operand.
FindShortest(expr) == SelectInSeq(expr, LAMBDA w : w \in {">", "<", "==", "!="})

\* The first operator of the list that the text contains.
FindOperator(expr) ==
  LET ops == TwoCharacter \o OneCharacter
      i == SelectInSeq(ops, LAMBDA op : OperatorAt(expr, op) > 0)
  IN IF i = 0 THEN 0 ELSE OperatorAt(expr, ops[i])

EvaluateComparison(expr) ==
  LET at == FindOperator(expr)
  IN IF at = 0 THEN Alone(ResolveValue(expr))
     ELSE Compare(ResolveValue(SubSeq(expr, 1, at - 1)), expr[at],
                  ResolveValue(SubSeq(expr, at + 1, Len(expr))))

\* The result of the first part that is not `neutral`: later ones are not evaluated.
FirstNot(neutral, results) ==
  LET at == SelectInSeq(results, LAMBDA r : r # neutral)
  IN IF at = 0 THEN neutral ELSE results[at]

EvaluateAnd(expr) ==
  LET parts == SplitLogical(expr, "AND")
  IN FirstNot("true", [i \in DOMAIN parts |-> EvaluateComparison(parts[i])])

\* Mutant of EvaluateOr: AND is split first, so that it binds weaker than OR.
AndFirst(expr) ==
  LET factors == SplitLogical(expr, "AND")
      Factor(part) == LET parts == SplitLogical(part, "OR")
                      IN FirstNot("false", [i \in DOMAIN parts |-> EvaluateComparison(parts[i])])
  IN FirstNot("true", [i \in DOMAIN factors |-> Factor(factors[i])])

EvaluateOr(expr) ==
  LET parts == SplitLogical(expr, "OR")
  IN FirstNot("false", [i \in DOMAIN parts |-> EvaluateAnd(parts[i])])

Evaluate(expr) == IF expr = <<>> THEN "error" ELSE EvaluateOr(expr)

-----------------------------------------------------------------------------
(* The author and the node *)

Term(glue, left, op, right) == [glue |-> glue, left |-> left, op |-> op, right |-> right]
Terms(glue) ==
  {Term(glue, l, "none", <<>>) : l \in author.operands} \cup
  {Term(glue, l, op, r) : l \in author.operands, op \in author.operators, r \in author.operands}

\* How a formula is written.
Written(t) ==
  (IF t.glue = "first" THEN <<>> ELSE <<t.glue>>) \o t.left \o
  (IF t.op = "none" THEN <<>> ELSE <<t.op>> \o t.right)
TextUpTo(f) ==
  LET upTo[k \in 0..Len(f)] == IF k = 0 THEN <<>> ELSE upTo[k - 1] \o Written(f[k])
  IN upTo
Text == TextUpTo(formula)[Len(formula)]

Init == author \in Authors /\ formula = <<>> /\ outcome = "none"

\* The author adds a comparison.
Write ==
  /\ Len(formula) < author.terms
  /\ \E glue \in IF formula = <<>> THEN {"first"} ELSE Logical :
       \E t \in Terms(glue) : formula' = Append(formula, t)
  /\ outcome' = "none"
  /\ UNCHANGED author

\* evaluateConditionalNode evaluates the expression against the context of the execution.
EvaluateNode ==
  /\ outcome = "none"
  /\ outcome' = Evaluate(Text)
  /\ UNCHANGED <<author, formula>>

Next == Write \/ EvaluateNode
Spec == Init /\ [][Next]_vars

-----------------------------------------------------------------------------
(* What the formula means *)

Quoted(operand) == Len(operand) > 1
Value(operand) ==
  IF Quoted(operand) THEN [type |-> "text", text |-> SubSeq(operand, 2, Len(operand) - 1)]
  ELSE ResolveValue(operand)

TermMeans(t) == IF t.op = "none" THEN Alone(Value(t.left)) ELSE Compare(Value(t.left), t.op, Value(t.right))

\* A run of conjuncts is decided by the first that is not true, a formula by the first
\* run that is not false.
Starts == {i \in DOMAIN formula : formula[i].glue # "AND"}
RunFrom(i) == {j \in DOMAIN formula : i <= j /\ \A k \in (i + 1)..j : formula[k].glue = "AND"}
RunMeans(i) ==
  LET odd == {j \in RunFrom(i) : TermMeans(formula[j]) # "true"}
  IN IF odd = {} THEN "true" ELSE TermMeans(formula[CHOOSE j \in odd : \A k \in odd : j <= k])
Meaning ==
  LET odd == {i \in Starts : RunMeans(i) # "false"}
  IN IF formula = <<>> THEN "error" ELSE IF odd = {} THEN "false"
     ELSE RunMeans(CHOOSE i \in odd : \A k \in odd : i <= k)

TypeInv ==
  /\ author \in Authors
  /\ formula \in Seq([glue : {"first", "AND", "OR"}, left : author.operands,
                      op : author.operators \cup {"none"}, right : author.operands \cup {<<>>}])
  /\ Len(formula) <= author.terms
  /\ outcome \in {"none", "true", "false", "error", "panic"}

-----------------------------------------------------------------------------
(* Properties *)

\* The text search finds the formula: AND binds stronger than OR, no operator is taken
\* for a part of another, what is decided is not evaluated further, and an error that is
\* reached is returned.
MatchesMeaning == outcome # "none" => outcome = Meaning

\* An operator and its opposite never agree, unless NaN is compared.
Opposite == [op \in {"==", "!=", ">", "<=", "<", ">="} |->
  CASE op = "==" -> "!=" [] op = "!=" -> "==" [] op = ">" -> "<=" [] op = "<=" -> ">"
    [] op = "<" -> ">=" [] op = ">=" -> "<"]
Plain(t) == \A v \in {Value(t.left), Value(t.right)} : v.text # <<"nan">>
Opposed ==
  Len(formula) = 1 /\ formula[1].op # "none" /\ Plain(formula[1]) /\ outcome \in {"true", "false"} =>
    Evaluate(Written([formula[1] EXCEPT !.op = Opposite[@]])) = (IF outcome = "true" THEN "false" ELSE "true")

\* An expression has a value or an error: evaluating it never takes the process down.
NeverPanics == outcome # "panic"

\* A field compares equal to the quoted text that it holds.
TextEqualsItself ==
  \A i \in DOMAIN formula :
    LET t == formula[i]
    IN Len(formula) = 1 /\ t.op = "==" /\ Value(t.left) = Value(t.right) /\ Value(t.left).type = "text"
         => outcome \in {"none", "true"}
=============================================================================
