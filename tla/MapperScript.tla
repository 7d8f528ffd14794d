----------------------------- MODULE MapperScript -----------------------------
(***************************************************************************)
(* MapperScript (backend/src/foundation/mapper.rs): compile once, evaluate *)
(* many.                                                                   *)
(*                                                                         *)
(* build    MapperScript::parse lowers the parse tree into the expression  *)
(*          arena.  Every sub-expression is pushed when it is complete, so *)
(*          the lowering is a post-order walk: the Parse* actions below    *)
(*          build any tree the grammar admits, one node per step, keeping  *)
(*          the completed but not yet consumed children on `stack`.  A     *)
(*          match or map block without cases is Ok(None) (NoExpr): its     *)
(*          parent drops it, or is itself None.                            *)
(* compile  Parse ends with MapperScript::validate; a parse or validation  *)
(*          error rejects the script.                                      *)
(* eval     MapperScript::eval on a record: a fresh MapperContext, then    *)
(*          the statements in order.  Evaluating one expression is the     *)
(*          recursive operator Eval, which threads the context (variables, *)
(*          record) through the tree exactly as the Rust recursion does.   *)
(*                                                                         *)
(* Arena indices are 1-based (ExprId(i) is arena[i+1]).                    *)
(***************************************************************************)
EXTENDS MapperValue, FiniteSets

CONSTANTS
  Idents,          \* identifier names
  Fields,          \* record fields addressable as @field
  FieldKeys,       \* field names used in var.field accesses (strings)
  Texts,           \* string literals (strings)
  Nums,            \* number literals (units of 1/Scale)
  RegexPatterns,   \* subset of Patterns used by regex expressions
  Fns,             \* built-in functions used by the script
  MatchKeyLists,   \* key lists a match case may have
  MapKeys,         \* keys a map block may switch on
  MapCaseKeyLists, \* key lists a map case may have
  Templates,       \* the template list: a sequence of [name, value]
  InitRecords,     \* records a script may be evaluated on
  NoValue,         \* an absent field (ValueAccessor::get returns None)
  MaxNodes,        \* bound on the arena length
  MaxArgs,         \* bound on children of one call, block or block case list
  MaxStack         \* bound on pending sub-expressions

AnyKey == "_"      \* the any_match key `_`

ASSUME AnyKey \notin Idents /\ RegexPatterns \subseteq Patterns
ASSUME MaxNodes \in Nat /\ MaxArgs \in Nat /\ MaxStack \in Nat \ {0}

BuiltIns == {"concat", "uppercase", "lowercase", "capitalize", "trim",
             "print", "number", "first", "template"}
ASSUME Fns \subseteq BuiltIns

NoExpr == 0        \* Ok(None) of parse_expression

VARIABLES
  phase,     \* "build", "compiled", "rejected", "eval", "done"
  arena,     \* MapperScript.expressions
  stack,     \* completed sub-expressions not yet consumed by a parent
  stmts,     \* MapperScript.statements (ExprIds of top-level expressions)
  pc,        \* index of the next statement MapperScript::eval runs
  vars,      \* MapperContext.variables: partial function name -> EvalResult
  rec,       \* the record behind the ValueAccessor: field -> string | NoValue
  raised,    \* ghost: names a "Variable ... not found" failure was raised for
  log        \* ghost: outcomes of the match and map blocks evaluated

vars_ == <<phase, arena, stack, stmts, pc, vars, rec, raised, log>>

-----------------------------------------------------------------------------
(* Expressions (enum Expression and its key types)                         *)

IdentNode(n)        == [k |-> "Ident", name |-> n]
FieldNode(f)        == [k |-> "Field", f |-> f]
VarAccessNode(n, f) == [k |-> "VarAccess", name |-> n, field |-> f]

LeafNodes ==
  {[k |-> "Null"]} \cup {IdentNode(n) : n \in Idents} \cup {FieldNode(f) : f \in Fields}
  \cup {VarAccessNode(n, f) : n \in Idents, f \in FieldKeys}
  \cup {[k |-> "Str", s |-> s] : s \in Texts} \cup {[k |-> "Num", x |-> x] : x \in Nums}
  \cup {[k |-> "Regex", src |-> src, pat |-> p] :
          src \in {IdentNode(n) : n \in Idents} \cup {FieldNode(f) : f \in Fields},
          p \in RegexPatterns}

Targets == {IdentNode(n) : n \in Idents} \cup {FieldNode(f) : f \in Fields}

\* The children of a node, in evaluation order.
Children(e) ==
  CASE e.k = "Assign"              -> <<e.e>>
    [] e.k \in {"Call", "Block"}   -> e.es
    [] e.k \in {"Match", "Map"}    -> [i \in DOMAIN e.cases |-> e.cases[i].e]
    [] OTHER                       -> <<>>

\* Every name an assignment anywhere in the arena defines.
AssignedNames == {arena[i].target.name : i \in {j \in DOMAIN arena :
                    arena[j].k = "Assign" /\ arena[j].target.k = "Ident"}}

-----------------------------------------------------------------------------
(* Validation (MapperScript::validate, MapperContext::validate_expr,       *)
(* validate_match_block, validate_map_block).  Each operator returns       *)
(* [ok, ids]: whether validation succeeded, and the grown identifier set.  *)

Fail == [ok |-> FALSE, ids |-> {}]

RECURSIVE ValidateExpr(_, _), ValidateSeq(_, _), ValidateMatchCases(_, _, _, _),
          ValidateMapCases(_, _, _, _, _), ValidateMatchCasesUnchecked(_, _, _, _)

ValidateSeq(es, ids) ==
  IF es = <<>> THEN [ok |-> TRUE, ids |-> ids]
  ELSE LET h == ValidateExpr(es[1], ids)
       IN IF h.ok THEN ValidateSeq(Tail(es), h.ids) ELSE Fail

\* validate_match_block without the check that key variables are defined.
ValidateMatchCasesUnchecked(cs, i, seen, ids) ==
  IF i > Len(cs) THEN [ok |-> TRUE, ids |-> ids]
  ELSE LET keys == cs[i].keys
           anys == {j \in DOMAIN keys : keys[j] = AnyKey}
       IN IF Cardinality(anys) > 1 \/ keys \in seen
          THEN Fail
          ELSE LET b == ValidateExpr(cs[i].e, ids)
               IN IF b.ok THEN ValidateMatchCasesUnchecked(cs, i + 1, seen \cup {keys}, b.ids)
                  ELSE Fail

\* validate_match_block: cases in order; `seen` are the key lists so far.
ValidateMatchCases(cs, i, seen, ids) ==
  IF i > Len(cs) THEN [ok |-> TRUE, ids |-> ids]
  ELSE LET keys == cs[i].keys
           anys == {j \in DOMAIN keys : keys[j] = AnyKey}
       IN IF \/ \E j \in DOMAIN keys : keys[j] # AnyKey /\ keys[j] \notin ids
             \/ Cardinality(anys) > 1
             \/ keys \in seen
          THEN Fail
          ELSE LET b == ValidateExpr(cs[i].e, ids)
               IN IF b.ok THEN ValidateMatchCases(cs, i + 1, seen \cup {keys}, b.ids)
                  ELSE Fail

\* validate_map_block: text keys unique and at most one `_` over all cases,
\* RangeFull(from, to) needs from <= to.
ValidateMapCases(cs, i, texts, anys, ids) ==
  IF i > Len(cs) THEN [ok |-> TRUE, ids |-> ids]
  ELSE LET keys  == cs[i].keys
           txt   == {keys[j].s : j \in {j \in DOMAIN keys : keys[j].k = "Text"}}
           nany  == anys + Cardinality({j \in DOMAIN keys : keys[j].k = "Any"})
           dupTx == \E j, l \in DOMAIN keys : j < l /\ keys[j].k = "Text"
                        /\ keys[l].k = "Text" /\ keys[j].s = keys[l].s
       IN IF \/ txt \cap texts # {} \/ dupTx \/ nany > 1
             \/ \E j \in DOMAIN keys : keys[j].k = "Full" /\ keys[j].from > keys[j].to
          THEN Fail
          ELSE LET b == ValidateExpr(cs[i].e, ids)
               IN IF b.ok THEN ValidateMapCases(cs, i + 1, texts \cup txt, nany, b.ids)
                  ELSE Fail

ValidateExpr(id, ids) ==
  IF id \notin DOMAIN arena THEN Fail
  ELSE LET e == arena[id] IN
  CASE e.k \in {"Ident", "VarAccess"} ->
         IF e.name \in ids THEN [ok |-> TRUE, ids |-> ids] ELSE Fail
    [] e.k \in {"Null", "Field", "Str", "Num"} -> [ok |-> TRUE, ids |-> ids]
    [] e.k = "Regex" ->
         IF e.src.k = "Ident" /\ e.src.name \notin ids THEN Fail
         ELSE [ok |-> TRUE, ids |-> ids]
    [] e.k = "Assign" ->
         \* the target is defined before its expression is validated
         ValidateExpr(e.e, IF e.target.k = "Ident" THEN ids \cup {e.target.name} ELSE ids)
    [] e.k = "Call" ->
         IF \/ e.es = <<>>
            \/ e.fn \in {"number", "template", "first"} /\ Len(e.es) > 1
         THEN Fail ELSE ValidateSeq(e.es, ids)
    [] e.k = "Match" -> ValidateMatchCases(e.cases, 1, {}, ids)
    [] e.k = "Map" ->
         IF e.key.k \in {"Ident", "VarAccess"} /\ e.key.name \notin ids THEN Fail
         ELSE ValidateMapCases(e.cases, 1, {}, 0, ids)
    [] e.k = "Block" -> ValidateSeq(e.es, ids)

Validate == ValidateSeq(stmts, {}).ok

-----------------------------------------------------------------------------
(* Evaluation (Expression::eval).  A context is [vars, rec, raised, log]; *)
(* every operator returns [r |-> EvalResult, st |-> context].              *)

Ret(r, st) == [r |-> r, st |-> st]

\* A "Variable ... not found" failure for name n.
NotFound(st, n) == [st EXCEPT !.raised = @ \cup {n}]

Logged(st, entry) == [st EXCEPT !.log = @ \cup {entry}]

FieldValue(st, f) == IF st.rec[f] = NoValue THEN Undefined ELSE Value(st.rec[f])

\* Expression::VarAccess (mapper.rs 882-899)
VarAccessResult(st, n, f) ==
  IF n \notin DOMAIN st.vars THEN Ret(Failure("NotFound"), NotFound(st, n))
  ELSE LET v == st.vars[n] IN
  CASE v.k = "Undefined"             -> Ret(Undefined, st)
    [] v.k \in {"Number", "Value"}   -> Ret(Failure("NoFields"), st)
    [] v.k = "Named" ->
         LET j == SelectInSeq(v.pairs, LAMBDA q : q[1] = f)
         IN IF j = 0 THEN Ret(Failure("NoField"), st) ELSE Ret(Value(v.pairs[j][2]), st)
    [] OTHER                         -> Ret(v, st)

\* MapperContext::get_template: the last template of a name wins (HashMap
\* insert); a Multi value is not resolvable.
GetTemplate(name) ==
  LET j == SelectLastInSeq(Templates, LAMBDA t : t.name = name)
  IN IF j = 0 \/ Templates[j].value = "Multi" THEN Undefined ELSE Value(Templates[j].value)

\* The built-in applied to the arguments left after dropping Undefined,
\* AnyValue and Failure (mapper.rs 988-1041); `args` is not empty.
CallResult(fn, args) ==
  LET pieces == ConcatArgs(args)
      a      == args[1]
  IN CASE fn = "concat"     -> Value(Join(pieces, <<>>))
       [] fn = "uppercase"  -> Value(ToUpper(Join(pieces, <<" ">>)))
       [] fn = "lowercase"  -> Value(ToLower(Join(pieces, <<" ">>)))
       [] fn = "trim"       -> Value(Trim(Join([i \in DOMAIN pieces |-> Trim(pieces[i])], <<" ">>)))
       [] fn = "capitalize" -> Value(Join([i \in DOMAIN pieces |-> Capitalize(pieces[i])], <<" ">>))
       [] fn = "print"      -> Undefined
       [] fn = "number"     -> IF a.k = "Value" THEN ToNumber(a.s) ELSE a
       [] fn = "first"      -> IF a.k = "Named" THEN Value(a.pairs[1][2]) ELSE a
       [] fn = "template"   ->
            CASE a.k = "Value" -> GetTemplate(a.s)
              [] a.k = "Named" -> GetTemplate(a.pairs[1][2])
              [] OTHER         -> Undefined

\* A match case fires when every key value is defined and not an error.
Fires(v) == v.k \in {"Value", "Number", "Named", "AnyValue"}

\* Some case has every key `_` or a variable holding a firing value.
SomeCaseReady(cases, st) ==
  \E i \in DOMAIN cases : \A j \in DOMAIN cases[i].keys :
     LET n == cases[i].keys[j] IN n = AnyKey \/ (n \in DOMAIN st.vars /\ Fires(st.vars[n]))

RECURSIVE Eval(_, _), EvalSeq(_, _), EvalBlock(_, _, _), EvalMatch(_, _, _, _), EvalMapCases(_, _, _, _)

\* The argument results of a call, left to right.
EvalSeq(es, st) ==
  IF es = <<>> THEN [rs |-> <<>>, st |-> st]
  ELSE LET h == Eval(es[1], st)
           t == EvalSeq(Tail(es), h.st)
       IN [rs |-> <<h.r>> \o t.rs, st |-> t.st]

EvalBlock(es, last, st) ==
  IF es = <<>> THEN Ret(last, st)
  ELSE LET h == Eval(es[1], st) IN EvalBlock(Tail(es), h.r, h.st)

\* Expression::MatchBlock from case i on (mapper.rs 1044-1075).
EvalMatch(id, cs, i, st) ==
  LET entry(fired) == [kind |-> "match", id |-> id, fired |-> fired,
                       ready |-> SomeCaseReady(cs, st)]
  IN IF i > Len(cs) THEN Ret(Undefined, Logged(st, entry(FALSE)))
  ELSE LET keys    == cs[i].keys
           missing == SelectInSeq(keys, LAMBDA n : n # AnyKey /\ n \notin DOMAIN st.vars)
       IN IF missing # 0
          THEN Ret(Failure("NotFound"), Logged(NotFound(st, keys[missing]), entry(FALSE)))
          ELSE IF \A j \in DOMAIN keys : keys[j] = AnyKey \/ Fires(st.vars[keys[j]])
               THEN LET b == Eval(cs[i].e, st) IN Ret(b.r, Logged(b.st, entry(TRUE)))
               ELSE EvalMatch(id, cs, i + 1, st)

\* The case loop of Expression::MapBlock (mapper.rs 1111-1171).
EvalMapCases(id, kv, cs, st) ==
  IF cs = <<>> THEN Ret(Undefined, Logged(st, [kind |-> "map", id |-> id, res |-> Undefined,
                                                body |-> {}]))
  ELSE IF \E j \in DOMAIN cs[1].keys : MapCaseKeyMatches(kv, cs[1].keys[j])
       THEN LET b == Eval(cs[1].e, st)
            IN Ret(b.r, Logged(b.st, [kind |-> "map", id |-> id, res |-> b.r, body |-> {b.r}]))
       ELSE EvalMapCases(id, kv, Tail(cs), st)

\* Expression::MapBlock: the key value, then the cases.  A var.field key
\* that resolves returns its value from the whole block (mapper.rs 1100).
EvalMap(id, e, st) ==
  LET early(r) == Ret(r, Logged(st, [kind |-> "map", id |-> id, res |-> r, body |-> {}]))
  IN CASE e.key.k = "Ident" ->
            IF e.key.name \notin DOMAIN st.vars
            THEN LET st2 == NotFound(st, e.key.name)
                 IN Ret(Failure("NotFound"),
                        Logged(st2, [kind |-> "map", id |-> id, res |-> Failure("NotFound"), body |-> {}]))
            ELSE EvalMapCases(id, st.vars[e.key.name], e.cases, st)
       [] e.key.k = "Field" -> EvalMapCases(id, FieldValue(st, e.key.f), e.cases, st)
       [] e.key.k = "VarAccess" ->
            LET v == VarAccessResult(st, e.key.name, e.key.field)
            IN IF v.r.k = "Value" THEN early(v.r)
               ELSE EvalMapCases(id, v.r, e.cases, v.st)

\* Expression::Assignment (mapper.rs 938-973).
EvalAssign(e, a) ==
  IF e.target.k = "Ident"
  THEN Ret(Undefined, [a.st EXCEPT !.vars = (e.target.name :> a.r) @@ @])
  ELSE LET f == e.target.f
           set(s) == Ret(Undefined, [a.st EXCEPT !.rec[f] = s])
       IN CASE a.r.k = "Value"   -> set(a.r.s)
            [] a.r.k = "Number"  -> set(FormatNumber(a.r.n))
            [] a.r.k = "Named"   -> set(Join(NamedPieces(a.r.pairs), <<>>))
            [] a.r.k = "Failure" -> Ret(Failure(a.r.cause), a.st)
            [] OTHER             -> Ret(Undefined, a.st)

Eval(id, st) ==
  IF id \notin DOMAIN arena THEN Ret(Undefined, st)
  ELSE LET e == arena[id] IN
  CASE e.k = "Null"  -> Ret(Undefined, st)
    [] e.k = "Ident" ->
         IF e.name \in DOMAIN st.vars THEN Ret(st.vars[e.name], st)
         ELSE Ret(Failure("NotFound"), NotFound(st, e.name))
    [] e.k = "Field" -> Ret(FieldValue(st, e.f), st)
    [] e.k = "VarAccess" -> VarAccessResult(st, e.name, e.field)
    [] e.k = "Str" -> Ret(Value(e.s), st)
    [] e.k = "Num" -> Ret(Number(e.x), st)
    [] e.k = "Regex" ->
         LET src == IF e.src.k = "Ident"
                    THEN IF e.src.name \in DOMAIN st.vars /\ st.vars[e.src.name].k = "Value"
                         THEN st.vars[e.src.name] ELSE Undefined
                    ELSE FieldValue(st, e.src.f)
         IN Ret(IF src.k = "Value" THEN RegexResult(e.pat, src.s) ELSE Undefined, st)
    [] e.k = "Assign" -> EvalAssign(e, Eval(e.e, st))
    [] e.k = "Call" ->
         LET a    == EvalSeq(e.es, st)
             errs == SelectInSeq(a.rs, IsError)
             kept == SelectSeq(a.rs, LAMBDA r : r.k \notin {"Undefined", "Failure", "AnyValue"})
         IN CASE errs # 0     -> Ret(Failure(a.rs[errs].cause), a.st)
              [] kept = <<>>  -> Ret(Undefined, a.st)
              [] OTHER        -> Ret(CallResult(e.fn, kept), a.st)
    [] e.k = "Match" -> EvalMatch(id, e.cases, 1, st)
    [] e.k = "Map"   -> EvalMap(id, e, st)
    [] e.k = "Block" -> EvalBlock(e.es, Undefined, st)

-----------------------------------------------------------------------------
(* Lowering the parse tree (MapperScript::parse and its helpers)           *)

\* The last n pending sub-expressions, as the children of a new node.
Top(n) == SubSeq(stack, Len(stack) - n + 1, Len(stack))
Pop(n) == SubSeq(stack, 1, Len(stack) - n)

\* Children that lowered to Ok(None) are dropped (parse_expression for
\* function arguments and block bodies).
Present(ids) == SelectSeq(ids, LAMBDA i : i # NoExpr)

\* Append node e to the arena in place of the last n pending children; its
\* ExprId is the new arena length (ExprId(expressions.len() - 1), 0-based).
PushNodeOffByOne(e, n) ==
  /\ arena' = Append(arena, e)
  /\ stack' = Append(Pop(n), Len(arena) + 2)

PushNode(e, n) ==
  /\ arena' = Append(arena, e)
  /\ stack' = Append(Pop(n), Len(arena) + 1)

CanPush == Len(arena) < MaxNodes

\* n pending children may be taken (n = 0 pushes a fresh entry).
CanTake(n) == n <= Len(stack) /\ (n = 0 => Len(stack) < MaxStack)

\* A leaf expression: null, identifier, field, var.field, literal, regex.
ParseLeaf ==
  /\ phase = "build" /\ CanPush /\ CanTake(0)
  /\ \E e \in LeafNodes : PushNode(e, 0)
  /\ UNCHANGED <<phase, stmts, pc, vars, rec, raised, log>>

\* parse_assignment: a None expression makes the assignment None, which
\* leaves the pending NoExpr in place; so only Some expressions step here.
ParseAssignment ==
  /\ phase = "build" /\ CanPush /\ Len(stack) >= 1 /\ Last(stack) # NoExpr
  /\ \E t \in Targets : PushNode([k |-> "Assign", target |-> t, e |-> Last(stack)], 1)
  /\ UNCHANGED <<phase, stmts, pc, vars, rec, raised, log>>

\* parse_expression, Rule::function_call (the name is checked by the grammar).
ParseFunctionCall ==
  /\ phase = "build" /\ CanPush
  /\ \E fn \in Fns, n \in 0..MaxArgs :
       /\ CanTake(n)
       /\ PushNode([k |-> "Call", fn |-> fn, es |-> Present(Top(n))], n)
  /\ UNCHANGED <<phase, stmts, pc, vars, rec, raised, log>>

\* parse_expression, Rule::block_expr.
ParseBlockExpr ==
  /\ phase = "build" /\ CanPush
  /\ \E n \in 0..MaxArgs :
       /\ CanTake(n)
       /\ PushNode([k |-> "Block", es |-> Present(Top(n))], n)
  /\ UNCHANGED <<phase, stmts, pc, vars, rec, raised, log>>

\* Cases of a match or map block: key list j with the j-th pending body;
\* a case whose body is None is dropped.
Cases(keyLists) ==
  LET n  == Len(keyLists)
      cs == [j \in 1..n |-> [keys |-> keyLists[j], e |-> Top(n)[j]]]
  IN SelectSeq(cs, LAMBDA c : c.e # NoExpr)

\* A block without cases is None; otherwise it is appended.
PushBlock(e, n) ==
  IF e.cases = <<>>
  THEN /\ stack' = Append(Pop(n), NoExpr) /\ UNCHANGED arena
  ELSE PushNode(e, n)

\* parse_match_case: a key list of more than one key containing `_`.
BadMatchKeys(keys) == Len(keys) > 1 /\ \E j \in DOMAIN keys : keys[j] = AnyKey

\* parse_expression, Rule::match_block with parse_match_case.
ParseMatchBlock ==
  /\ phase = "build" /\ CanPush
  /\ \E n \in 0..MaxArgs, kl \in [1..MaxArgs -> MatchKeyLists] :
       LET keyLists == SubSeq(kl, 1, n) IN
       /\ CanTake(n)
       /\ \/ /\ \E j \in 1..n : BadMatchKeys(keyLists[j])
             /\ phase' = "rejected" /\ UNCHANGED <<arena, stack>>
          \/ /\ \A j \in 1..n : ~BadMatchKeys(keyLists[j])
             /\ PushBlock([k |-> "Match", cases |-> Cases(keyLists)], n)
             /\ UNCHANGED phase
  /\ UNCHANGED <<stmts, pc, vars, rec, raised, log>>

\* parse_map_block with parse_map_case.
ParseMapBlock ==
  /\ phase = "build" /\ CanPush
  /\ \E n \in 0..MaxArgs, key \in MapKeys, kl \in [1..MaxArgs -> MapCaseKeyLists] :
       /\ CanTake(n)
       /\ PushBlock([k |-> "Map", key |-> key, cases |-> Cases(SubSeq(kl, 1, n))], n)
  /\ UNCHANGED <<phase, stmts, pc, vars, rec, raised, log>>

\* parse_statement: the oldest pending expression is a complete top-level
\* expression (any later ones belong to later statements); a None one
\* yields no statement.
ParseStatement ==
  /\ phase = "build" /\ stack # <<>>
  /\ stmts' = IF Head(stack) = NoExpr THEN stmts ELSE Append(stmts, Head(stack))
  /\ stack' = Tail(stack)
  /\ UNCHANGED <<phase, arena, pc, vars, rec, raised, log>>

\* The end of MapperScript::parse: validate, then accept or reject.
Parse ==
  /\ phase = "build" /\ stack = <<>>
  /\ phase' = IF Validate THEN "compiled" ELSE "rejected"
  /\ UNCHANGED <<arena, stack, stmts, pc, vars, rec, raised, log>>

-----------------------------------------------------------------------------
(* Evaluation (MapperScript::eval, eval_with_context, Statement::eval)     *)

\* MapperScript::eval on a record: a fresh MapperContext per evaluation.
EvalScript ==
  /\ phase \in {"compiled", "done"}
  /\ rec' \in InitRecords
  /\ phase' = "eval" /\ pc' = 1
  /\ vars' = <<>> /\ raised' = {} /\ log' = {}
  /\ UNCHANGED <<arena, stack, stmts>>

Context == [vars |-> vars, rec |-> rec, raised |-> raised, log |-> log]

Apply(out) ==
  /\ vars' = out.vars /\ rec' = out.rec
  /\ raised' = out.raised /\ log' = out.log

\* Statement::eval: a Failure is only logged; the next statement runs.
EvalStatement ==
  /\ phase = "eval" /\ pc <= Len(stmts)
  /\ Apply(Eval(stmts[pc], Context).st)
  /\ pc' = pc + 1
  /\ UNCHANGED <<phase, arena, stack, stmts>>

\* eval_with_context returns after the last statement.
EvalDone ==
  /\ phase = "eval" /\ pc > Len(stmts)
  /\ phase' = "done"
  /\ UNCHANGED <<arena, stack, stmts, pc, vars, rec, raised, log>>

\* A rejected script is never evaluated.
Rejected == phase = "rejected" /\ UNCHANGED vars_

Init ==
  /\ phase = "build" /\ arena = <<>> /\ stack = <<>> /\ stmts = <<>>
  /\ pc = 1 /\ vars = <<>> /\ rec \in InitRecords /\ raised = {} /\ log = {}

Next ==
  \/ ParseLeaf \/ ParseAssignment \/ ParseFunctionCall \/ ParseBlockExpr
  \/ ParseMatchBlock \/ ParseMapBlock \/ ParseStatement \/ Parse
  \/ EvalScript \/ EvalStatement \/ EvalDone \/ Rejected

Spec == Init /\ [][Next]_vars_

-----------------------------------------------------------------------------
(* Properties                                                              *)

Phases == {"build", "compiled", "rejected", "eval", "done"}
Kinds  == {"Null", "Ident", "Field", "VarAccess", "Str", "Num", "Regex",
           "Assign", "Call", "Match", "Map", "Block"}

\* An EvalResult as the evaluator can produce it: a Named value only comes
\* from a regex with at least two captured groups (one capture is a Value).
IsResult(v) ==
  /\ v.k \in {"Undefined", "Value", "Number", "Named", "AnyValue", "Failure"}
  /\ v.k = "Named" => Len(v.pairs) >= 2

TypeOK ==
  /\ phase \in Phases
  /\ \A i \in DOMAIN arena : arena[i].k \in Kinds
  /\ stack \in Seq(0..MaxNodes) /\ stmts \in Seq(1..MaxNodes)
  /\ pc \in 1..Len(stmts) + 1
  /\ DOMAIN vars \subseteq Idents /\ \A n \in DOMAIN vars : IsResult(vars[n])
  /\ DOMAIN rec = Fields
  /\ raised \subseteq Idents

\* Spec 8.1, the lowering in MapperScript::parse: every ExprId a node,
\* a statement or a pending parent holds is in the arena, and children lie
\* strictly before their parent.
ArenaWellFormed ==
  /\ \A i \in DOMAIN arena : \A j \in DOMAIN Children(arena[i]) :
        Children(arena[i])[j] \in 1..(i - 1)
  /\ \A j \in DOMAIN stmts : stmts[j] \in DOMAIN arena
  /\ \A j \in DOMAIN stack : stack[j] \in DOMAIN arena \cup {NoExpr}

\* MapperScript::validate against evaluation: a script that was accepted
\* only ever fails on a variable that some assignment in it defines, so a
\* name the script never assigns is caught at compile time.
OnlyAssignedNamesMissing == raised \subseteq AssignedNames

\* Spec 4.3 (an assignment's expression is validated before its name is
\* defined): in a script without match or map blocks, where every
\* statement runs in full, an accepted script never reads an undefined
\* variable.
BranchFree == \A i \in DOMAIN arena : arena[i].k \notin {"Match", "Map"}
ValidatedNoUnknownVar == BranchFree => raised = {}

\* Spec 4.5 (MapBlock): the value of a map block is Undefined, the value
\* of the case body that fired, or a failure.
MapYieldsCaseResult ==
  \A e \in log : e.kind = "map" => e.res \in e.body \cup {Undefined} \/ e.res.k = "Failure"

\* Spec 4.5 (MatchBlock): a case whose key variable is missing fails and
\* the next case is tried, so a match with a case whose keys are all `_`
\* or defined values always evaluates a case.
MatchFiresReadyCase == \A e \in log : e.kind = "match" /\ e.ready => e.fired
=============================================================================
