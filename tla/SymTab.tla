------------------------------- MODULE SymTab -------------------------------
(***************************************************************************)
(* The symbol tables (symbol.c and build_symbol_tables in node.c): one     *)
(* walk over the syntax tree that makes a table for each function and for  *)
(* each block, enters the declared names in the table of the moment and    *)
(* ties every other identifier to the symbol it finds from there outwards. *)
(* The walk is recursive C; todo holds what is left of it.                 *)
(* Tables are named by their path from the file scope <<>>, a symbol by    *)
(* its table and its number in it.  Memory that malloc hands out for the   *)
(* first time is zero, so the flags of a new functioninfo are FALSE.       *)
(* Left out is a block that follows, in one function, a block that ended   *)
(* above the file scope: its table would be a second file scope.           *)
(***************************************************************************)
EXTENDS Syntax, Tables, FiniteSets

CONSTANT
  Programs  (* The syntax trees that may be compiled.                      *)

VARIABLES
  tree,          (* The program being compiled.                            *)
  walk,          (* The work left, a stack.                                *)
  tables,        (* The tables made so far, by path.                       *)
  currenttable,  (* The path of the table of the moment.                   *)
  typearray,     (* The BIT_ names that are set, a global of node.c.       *)
  pointer_depth, (* Its last entry, POINTER_DEPTH.                         *)
  symbol,        (* The symbol of an identifier node, or NoSymbol.         *)
  errors,        (* The nodes for which an error was printed.              *)
  crashed        (* A NULL pointer was read.                               *)

types == <<typearray, pointer_depth>>
vars  == <<tree, walk, tables, currenttable, types, symbol, errors, crashed>>

Paths     == Seq({"L", "R"})
At        == [n \in Paths |-> NodeAt(tree, n)]
IsNull(n) == At[n] = NULL
Below(n, subtype) == is_below_subtype(tree, n, subtype)

NoSymbol   == <<>>
Nowhere    == <<0>>   (* The NULL table above the file scope.                  *)
NoName     == "no name" (* The name of a block's table, a NULL pointer.          *)
NoFuncinfo == [declnode |-> <<>>, is_prototyped |-> FALSE, is_defined |-> FALSE,
               params_inserted |-> FALSE]
TYPEBITS == {"VOID", "SIGNED", "UNSIGNED", "CHAR", "SHORT", "LONG", "INT"}

Enter(n)  == [do |-> "enter", n |-> n]
Middle(n) == [do |-> "middle", n |-> n]
Leave(n)  == [do |-> "leave", n |-> n]

Here        == Head(walk).n
Doing(d)    == walk # <<>> /\ Head(walk).do = d
Then(new)   == walk' = new \o Tail(walk)
SubtypeIs(s) == At[Here].subtype = s

Put(f, a, v) == [b \in DOMAIN f \cup {a} |-> IF b = a THEN v ELSE f[b]]

TypeOK ==
  /\ tree.subtype = "FILESCOPE"
  /\ currenttable \in DOMAIN tables \cup {Nowhere}
  /\ \A p \in DOMAIN tables : tables[p].children = Cardinality({q \in DOMAIN tables :
                                 q # <<>> /\ Parent(q) = p})
  /\ typearray \subseteq TYPEBITS \cup {"FUNCTION", "POINTER"}
  /\ pointer_depth \in Nat
  /\ \A n \in DOMAIN symbol : symbol[n] # NoSymbol =>
       symbol[n][2] \in DOMAIN tables[symbol[n][1]].symbols
  /\ \A n \in errors : ~IsNull(n)
  /\ crashed \in BOOLEAN

NewTable(name, tablefor) ==
  [name |-> name, tablefor |-> tablefor, symbols |-> <<>>, children |-> 0]

Start ==
  /\ walk = <<Enter(<<>>)>>
  /\ tables = [p \in {<<>>} |-> NewTable("file scope", NoSymbol)]
  /\ currenttable = <<>>
  /\ typearray = {}
  /\ pointer_depth = 0
  /\ symbol = [n \in {} |-> NoSymbol]
  /\ errors = {}
  /\ crashed = FALSE

Init == tree \in Programs /\ Start

-----------------------------------------------------------------------------
(* symbol.c                                                                *)

SymbolAt(ts, id) == ts[id[1]].symbols[id[2]]
Named(path, name) == {k \in DOMAIN tables[path].symbols : tables[path].symbols[k].name = name}
Least(S) == CHOOSE k \in S : \A j \in S : k <= j

(* find_symbol: the innermost table with the name, from path outwards.     *)
find_symbol(path, name) ==
  LET depths == {k \in 0..Len(path) : Named(SubSeq(path, 1, k), name) # {}}
      inmost == SubSeq(path, 1, CHOOSE k \in depths : \A j \in depths : j <= k)
  IN IF depths = {} THEN NoSymbol ELSE <<inmost, Least(Named(inmost, name))>>

(* Mutant: the new table is not put at the end of the parent's list.       *)
AddTableOverLast(table) ==
  LET path == Append(currenttable, 1)
  IN /\ tables' = Put([tables EXCEPT ![currenttable].children = @ + 1], path, table)
     /\ currenttable' = path

(* create_symboltable without a node, and the end of it with one.          *)
AddTable(table) ==
  LET parent == [tables[currenttable] EXCEPT !.children = @ + 1]
      path   == Append(currenttable, parent.children)
  IN /\ tables' = Put(Put(tables, currenttable, parent), path, table)
     /\ currenttable' = path

(* The function whose parameters are being declared.                       *)
Owner        == tables[currenttable].tablefor
OwnerInfo    == IF Owner = NoSymbol THEN NoFuncinfo ELSE SymbolAt(tables, Owner).funcinfo

(* Mutant: the parameters of a second declarator are counted as well.      *)
CountAgain(ts) ==
  [ts EXCEPT ![Owner[1]].symbols[Owner[2]].params = @ + 1,
             ![Owner[1]].symbols[Owner[2]].size = SymbolAt(ts, Owner).params + 1]

(* append_symbol_param: size is one more than the parameters counted.      *)
append_symbol_param(ts) ==
  IF OwnerInfo.params_inserted THEN ts
  ELSE [ts EXCEPT ![Owner[1]].symbols[Owner[2]].params = @ + 1,
                  ![Owner[1]].symbols[Owner[2]].size = SymbolAt(ts, Owner).params + 1]

(* compare_subtrees: the same shape, types, names and numbers.             *)
compare_subtrees(m, n) == At[m] = At[n]

NewSymbol(n) ==
  [name |-> At[n].string_data, type |-> typearray, depth |-> pointer_depth, node |-> n,
   dims |-> <<>>,
   size |-> 0, params |-> 0,
   funcinfo |-> IF "FUNCTION" \in typearray
                THEN [declnode |-> Parent(n), is_prototyped |-> ~Below(n, "FUNCTION_SPEC"),
                      is_defined |-> Below(n, "FUNCTION_SPEC"), params_inserted |-> FALSE]
                ELSE NoFuncinfo]

(* The symbols of the current table that have n's name.                    *)
Known(n) == Named(currenttable, At[n].string_data)

(* The function declared at n is the one of symbol k in the table.         *)
SameFunction(n, k) ==
  LET known == tables[currenttable].symbols[k]
  IN "FUNCTION" \in known.type /\ compare_subtrees(Parent(n), Parent(known.node))

(* The dimensions in the ARRAY_DECL nodes right above n, inmost first, are *)
(* added to those the symbol has.                                          *)
DimensionNodes(n) ==
  LET up(k)  == SubSeq(n, 1, Len(n) - k)
      levels == {d \in 0..Len(n) : \A k \in 1..d : At[up(k)].subtype = "ARRAY_DECL"}
  IN [k \in 1..Cardinality(levels \ {0}) |-> Right(up(k))]
Dimensions(n) == [k \in DOMAIN DimensionNodes(n) |-> At[DimensionNodes(n)[k]].const_value]

add_array_dimensions(ts, id, n) ==
  [ts EXCEPT ![id[1]].symbols[id[2]].dims = @ \o Dimensions(n)]

-----------------------------------------------------------------------------
(* build_symbol_tables_recursive                                           *)

EnterNull ==
  /\ Doing("enter") /\ IsNull(Here)
  /\ Then(<<>>)
  /\ UNCHANGED <<tree, tables, currenttable, types, symbol, errors, crashed>>

Children(n) == <<Enter(Left(n)), Middle(n), Enter(Right(n)), Leave(n)>>

(* A block, unless it is the body of a function, gets a table of its own.  *)
IsInnerBlock(n) == At[n].subtype = "LIST_BLOCK" /\ At[Parent(n)].subtype # "FUNCTION_DEF"

EnterBlock ==
  /\ Doing("enter") /\ ~IsNull(Here)
  /\ IsInnerBlock(Here)
  /\ currenttable # Nowhere
  /\ AddTable(NewTable(NoName, NoSymbol))
  /\ Then(Children(Here))
  /\ UNCHANGED <<tree, types, symbol, errors, crashed>>

EnterNode ==
  /\ Doing("enter") /\ ~IsNull(Here)
  /\ ~IsInnerBlock(Here)
  /\ typearray' = typearray \cup (CASE SubtypeIs("FUNCTION_DECL") -> {"FUNCTION"}
                                    [] SubtypeIs("PTR_DECL")      -> {"POINTER"}
                                    [] OTHER                      -> {})
  /\ Then(Children(Here))
  /\ UNCHANGED <<tree, tables, currenttable, pointer_depth, symbol, errors, crashed>>

SetType ==
  /\ Doing("middle") /\ At[Here].type = "TYPE"
  /\ typearray' = typearray \cup {At[Here].subtype}
  /\ Then(<<>>)
  /\ UNCHANGED <<tree, tables, currenttable, pointer_depth, symbol, errors, crashed>>

(* A * in a declarator, between PTR_DECL and the name.                     *)
IsPointer(n) == At[n].type = "UNARY_OP" /\ At[n].string_data = "*" /\ "POINTER" \in typearray

CountPointer ==
  /\ Doing("middle") /\ IsPointer(Here)
  /\ pointer_depth' = pointer_depth + 1
  /\ Then(<<>>)
  /\ UNCHANGED <<tree, tables, currenttable, typearray, symbol, errors, crashed>>

IsDeclared(n)  == Below(n, "DECL") \/ Below(n, "FUNCTION_SPEC")
IsParameter(n) == Below(n, "PARAM_DECL")

(* A NULL pointer is read and the compiler ends.                           *)
Crash ==
  /\ crashed' = TRUE
  /\ walk' = <<>>
  /\ UNCHANGED <<tree, tables, currenttable, types, symbol, errors>>

(* The table above the file scope is read.                                 *)
ReadsTable == \/ Doing("middle") /\ (At[Here].type = "IDENTIFIER" \/ SubtypeIs("FUNCTION_DECL"))
              \/ Doing("leave") /\ SubtypeIs("LIST_BLOCK")

NowhereCrash ==
  /\ walk # <<>> /\ ~IsNull(Here) /\ ReadsTable
  /\ currenttable = Nowhere
  /\ Crash

(* append_symbol_param, when the name was no function's to begin with.     *)
DeclareCrash ==
  /\ currenttable # Nowhere
  /\ Doing("middle") /\ At[Here].type = "IDENTIFIER"
  /\ IsDeclared(Here) /\ IsParameter(Here)
  /\ OwnerInfo = NoFuncinfo
  /\ Crash

(* An identifier in a declaration.  A parameter is counted first.          *)
Declares ==
  /\ currenttable # Nowhere
  /\ Doing("middle") /\ At[Here].type = "IDENTIFIER"
  /\ IsDeclared(Here)
  /\ IsParameter(Here) => OwnerInfo # NoFuncinfo
HasDimensions == \A k \in DOMAIN DimensionNodes(Here) : ~IsNull(DimensionNodes(Here)[k])
Declaring     == Declares /\ HasDimensions

(* An array without a dimension.                                           *)
DimensionCrash == Declares /\ ~HasDimensions /\ Crash

Counted == IF IsParameter(Here) THEN append_symbol_param(tables) ELSE tables

(* The identifier is tied to the symbol that insert_symbol left in ts.     *)
Tie(ts, id) ==
  /\ tables' = add_array_dimensions(ts, id, Here)
  /\ symbol' = Put(symbol, Here, id)
  /\ Then(<<>>)
  /\ UNCHANGED <<tree, currenttable, types, crashed>>

(* insert_symbol, a name that the table does not have.                     *)
DeclareNew ==
  /\ Declaring
  /\ Known(Here) = {}
  /\ Tie([Counted EXCEPT ![currenttable].symbols = Append(@, NewSymbol(Here))],
         <<currenttable, Len(tables[currenttable].symbols) + 1>>)
  /\ UNCHANGED errors

Redefines(k) == Below(Here, "FUNCTION_SPEC") /\ SameFunction(Here, k)
IsDefined(k) == tables[currenttable].symbols[k].funcinfo.is_defined

(* insert_symbol, the definition of a function after its prototype.        *)
DeclareDefinition ==
  /\ Declaring
  /\ Known(Here) # {}
  /\ \E k \in {Least(Known(Here))} :
       /\ Redefines(k) /\ ~IsDefined(k)
       /\ Tie([Counted EXCEPT ![currenttable].symbols[k].funcinfo.is_defined = TRUE],
              <<currenttable, k>>)
  /\ UNCHANGED errors

(* insert_symbol, a parameter that an earlier declarator has declared.     *)
DeclareParameter ==
  /\ Declaring
  /\ Known(Here) # {}
  /\ IsParameter(Here) /\ OwnerInfo.params_inserted
  /\ \E k \in {Least(Known(Here))} :
       /\ ~SameFunction(Here, k)
       /\ Tie(Counted, <<currenttable, k>>)
  /\ UNCHANGED errors

(* insert_symbol returns NULL: the identifier is tied to what find_symbol  *)
(* gives, the symbol that has the name already.                            *)
Redeclare ==
  /\ Declaring
  /\ Known(Here) # {}
  /\ \E k \in {Least(Known(Here))} :
       /\ IF SameFunction(Here, k) THEN Redefines(k) => IsDefined(k)
          ELSE ~(IsParameter(Here) /\ OwnerInfo.params_inserted)
       /\ Tie(Counted, <<currenttable, k>>)
  /\ errors' = errors \cup {Here}

(* Any other identifier.                                                   *)
Use ==
  /\ currenttable # Nowhere
  /\ Doing("middle") /\ At[Here].type = "IDENTIFIER"
  /\ ~IsDeclared(Here)
  /\ LET id == find_symbol(currenttable, At[Here].string_data)
     IN /\ symbol' = Put(symbol, Here, id)
        /\ errors' = IF id = NoSymbol THEN errors \cup {Here} ELSE errors
  /\ Then(<<>>)
  /\ UNCHANGED <<tree, tables, currenttable, types, crashed>>

(* The file scope's tables that have a function's name.                    *)
TablesOf(name) == {k \in 1..tables[<<>>].children : tables[<<k>>].name = name}
DeclnodeOf(k)  == SymbolAt(tables, tables[<<k>>].tablefor).funcinfo.declnode

(* The search for a name meets a block's table first. The file scope has   *)
(* one when a block was entered after a function was declared in a body.   *)
ReadsNoName(name) == \E b \in TablesOf(NoName) : \A k \in TablesOf(name) : b < k

(* The table found is for a name that was no function's to begin with.     *)
FoundCrash(name) ==
  LET found == TablesOf(name)
  IN found # {} /\ DeclnodeOf(Least(found)) = NoFuncinfo.declnode

(* create_symboltable reads a NULL name or a NULL funcinfo.                *)
OpenCrash ==
  /\ currenttable # Nowhere
  /\ Doing("middle") /\ SubtypeIs("FUNCTION_DECL")
  /\ \E name \in {At[Left(Here)].string_data} : ReadsNoName(name) \/ FoundCrash(name)
  /\ Crash

(* A function declarator between its name and its parameters: the type     *)
(* bits are cleared and its table is made, or found if there is one.       *)
OpenFunction ==
  /\ currenttable # Nowhere
  /\ Doing("middle") /\ SubtypeIs("FUNCTION_DECL")
  /\ ~ReadsNoName(At[Left(Here)].string_data)
  /\ typearray' = {}
  /\ LET name  == At[Left(Here)].string_data
         found == TablesOf(name)
     IN IF found = {}
        THEN AddTable(NewTable(name, symbol[Left(Here)])) /\ UNCHANGED errors
        ELSE /\ DeclnodeOf(Least(found)) # NoFuncinfo.declnode
             /\ currenttable' = <<Least(found)>>
             /\ errors' = IF compare_subtrees(Here, DeclnodeOf(Least(found))) THEN errors
                          ELSE errors \cup {Here}
             /\ UNCHANGED tables
  /\ Then(<<>>)
  /\ UNCHANGED <<tree, pointer_depth, symbol, crashed>>

MiddleOther ==
  /\ Doing("middle")
  /\ At[Here].type \notin {"TYPE", "IDENTIFIER"} /\ ~SubtypeIs("FUNCTION_DECL")
  /\ ~IsPointer(Here)
  /\ Then(<<>>)
  /\ UNCHANGED <<tree, tables, currenttable, types, symbol, errors, crashed>>

(* Mutant: a prototype stays in its table as a definition does.            *)
CloseAndStay ==
  /\ Doing("leave") /\ SubtypeIs("FUNCTION_DECL")
  /\ IF OwnerInfo = NoFuncinfo THEN UNCHANGED tables
     ELSE tables' = [tables EXCEPT ![Owner[1]].symbols[Owner[2]].funcinfo.params_inserted = TRUE]
  /\ Then(<<>>)
  /\ UNCHANGED <<tree, currenttable, types, symbol, errors, crashed>>

(* A prototype leaves its table, a definition stays in it for its body.    *)
CloseFunction ==
  /\ Doing("leave") /\ SubtypeIs("FUNCTION_DECL")
  /\ IF OwnerInfo = NoFuncinfo THEN UNCHANGED <<tables, currenttable>>
     ELSE /\ tables' = [tables EXCEPT ![Owner[1]].symbols[Owner[2]].funcinfo.params_inserted = TRUE]
          /\ currenttable' = IF Below(Here, "FUNCTION_SPEC") THEN currenttable
                             ELSE Parent(currenttable)
  /\ Then(<<>>)
  /\ UNCHANGED <<tree, types, symbol, errors, crashed>>

(* Mutant: a parameter leaves its type bits set.                           *)
LeaveParameterSet ==
  /\ Doing("leave") /\ At[Here].subtype \in {"DECL", "FUNCTION_SPEC", "PARAM_DECL"}
  /\ typearray' = IF SubtypeIs("PARAM_DECL") THEN typearray ELSE typearray \ TYPEBITS
  /\ Then(<<>>)
  /\ UNCHANGED <<tree, tables, currenttable, pointer_depth, symbol, errors, crashed>>

LeaveDeclaration ==
  /\ Doing("leave") /\ At[Here].subtype \in {"DECL", "FUNCTION_SPEC", "PARAM_DECL"}
  /\ typearray' = typearray \ TYPEBITS
  /\ Then(<<>>)
  /\ UNCHANGED <<tree, tables, currenttable, pointer_depth, symbol, errors, crashed>>

LeavePointer ==
  /\ Doing("leave") /\ SubtypeIs("PTR_DECL")
  /\ typearray' = typearray \ {"POINTER"}
  /\ pointer_depth' = 0
  /\ Then(<<>>)
  /\ UNCHANGED <<tree, tables, currenttable, symbol, errors, crashed>>

(* Mutant: a block leaves its table only when it is the body of a function.*)
LeaveBodyOnly ==
  /\ Doing("leave") /\ SubtypeIs("LIST_BLOCK")
  /\ currenttable # Nowhere
  /\ currenttable' = IF IsInnerBlock(Here) THEN currenttable
                     ELSE IF currenttable = <<>> THEN Nowhere ELSE Parent(currenttable)
  /\ Then(<<>>)
  /\ UNCHANGED <<tree, tables, types, symbol, errors, crashed>>

LeaveBlock ==
  /\ Doing("leave") /\ SubtypeIs("LIST_BLOCK")
  /\ currenttable # Nowhere
  /\ currenttable' = IF currenttable = <<>> THEN Nowhere ELSE Parent(currenttable)
  /\ Then(<<>>)
  /\ UNCHANGED <<tree, tables, types, symbol, errors, crashed>>

LeaveOther ==
  /\ Doing("leave")
  /\ At[Here].subtype \notin {"FUNCTION_DECL", "DECL", "FUNCTION_SPEC", "PARAM_DECL", "PTR_DECL",
                               "LIST_BLOCK"}
  /\ Then(<<>>)
  /\ UNCHANGED <<tree, tables, currenttable, types, symbol, errors, crashed>>

Next ==
  \/ EnterNull \/ EnterBlock \/ EnterNode
  \/ SetType \/ CountPointer \/ NowhereCrash \/ DeclareCrash \/ DimensionCrash \/ DeclareNew
  \/ DeclareDefinition \/ DeclareParameter \/ Redeclare \/ Use
  \/ OpenFunction \/ OpenCrash \/ MiddleOther
  \/ CloseFunction \/ LeaveDeclaration \/ LeavePointer \/ LeaveBlock \/ LeaveOther

Spec == Init /\ [][Next]_vars

(***************************************************************************)
(* The tables are at all times a tree as calculate_offsets takes it, which *)
(* follows children and reads the symbols' dimensions without a check: a   *)
(* table is opened below another one, found again by its name, and left by *)
(* its parent link, and nothing takes one away, also when errors were      *)
(* printed or the walk ended in the middle of a declaration.               *)
(***************************************************************************)
LaysOut == IsTree(tables)

-----------------------------------------------------------------------------
(* Properties of the tables of a program without errors, against what the  *)
(* tree itself says of its declarations.                                   *)

Accepted == walk = <<>> /\ ~crashed /\ errors = {}

Declared == {n \in DOMAIN symbol : IsDeclared(n)}
Used     == DOMAIN symbol \ Declared

Prefix(n, k) == SubSeq(n, 1, k)
IsWithin(n, m) == Len(m) < Len(n) /\ Prefix(n, Len(m)) = m

(* The innermost node around n with one of the subtypes, or the root.      *)
Nearest(n, subtypes) ==
  LET depths == {k \in 0..(Len(n) - 1) : k = 0 \/ At[Prefix(n, k)].subtype \in subtypes}
  IN Prefix(n, CHOOSE k \in depths : \A j \in depths : j <= k)

(* A function's part of the program: its definition or its prototype.      *)
Region == [n \in Paths |->
             IF Below(n, "FUNCTION_SPEC") THEN Nearest(n, {"FUNCTION_DEF"}) ELSE n]

(* The body of a function belongs to its definition, as the parameters do. *)
BlockScope == [b \in Paths |->
                 IF b # <<>> /\ At[Parent(b)].subtype = "FUNCTION_DEF" THEN Parent(b) ELSE b]

Scope == [d \in Declared |->
            IF IsParameter(d) THEN Region[Nearest(d, {"FUNCTION_DECL"})]
            ELSE IF Below(d, "FUNCTION_SPEC") THEN <<>>
            ELSE BlockScope[Nearest(d, {"LIST_BLOCK"})]]

Before(d, u) ==
  \E k \in 1..Len(d) :
     k <= Len(u) /\ Prefix(d, k - 1) = Prefix(u, k - 1) /\ d[k] = "L" /\ u[k] = "R"

Visible(u) ==
  {d \in Declared : At[d].string_data = At[u].string_data /\ IsWithin(u, Scope[d]) /\ Before(d, u)}

SameParameter(c, d) ==
  IsParameter(c) /\ IsParameter(d) /\ symbol[c][1] = symbol[d][1]

(***************************************************************************)
(* Lexical scope: an identifier is tied to the symbol of the innermost     *)
(* visible declaration of its name, and declarations of different scopes   *)
(* have different symbols unless they declare one parameter twice.  One    *)
(* table too many or too few left behind by a block, a prototype or a      *)
(* definition shows only in what is declared or used after it.             *)
(***************************************************************************)
LexicalScope ==
  Accepted =>
     /\ \A u \in Used : \E d \in Visible(u) :
          /\ symbol[u] = symbol[d]
          /\ \A e \in Visible(u) : Len(Scope[e]) <= Len(Scope[d])
     /\ \A c, d \in Declared : symbol[c] = symbol[d] => Scope[c] = Scope[d] \/ SameParameter(c, d)

(* d is a parameter in the definition that f names.                        *)
IsParameterOf(d, f) ==
  IsParameter(d) /\ Below(d, "FUNCTION_SPEC") /\ IsWithin(d, Parent(f))

(***************************************************************************)
(* emit_function_entry copies the arguments to the first size symbols of   *)
(* the function's table (mips.c:41): these are the parameters of its       *)
(* definition in their order, also after prototypes.                       *)
(***************************************************************************)
ParametersFirst ==
  Accepted =>
     \A f \in Declared :
        Below(f, "FUNCTION_SPEC") /\ ~IsParameter(f) =>
           LET params == {d \in Declared : IsParameterOf(d, f)}
               table  == <<Least(TablesOf(At[f].string_data))>>
           IN /\ SymbolAt(tables, symbol[f]).size = Cardinality(params)
              /\ \A d \in params :
                   symbol[d] = <<table, 1 + Cardinality({c \in params : Before(c, d)})>>

(* The declaration of d, and the nodes between it and d.                   *)
DeclarationOf(d) == Nearest(d, {"DECL", "FUNCTION_SPEC", "PARAM_DECL"})
Around(d) == {Prefix(d, k) : k \in (Len(DeclarationOf(d)) + 1)..(Len(d) - 1)}
Stars(d)  == Cardinality({n \in Around(d) : At[n].type = "UNARY_OP"})

(* The type names that a declaration gives to the identifier d.            *)
Specifiers(d) ==
  LET specifier == At[Left(DeclarationOf(d))]
      more == IF specifier.left = NULL THEN {} ELSE {specifier.left.subtype}
  IN {specifier.subtype} \cup more
     \cup (IF At[Parent(d)].subtype = "FUNCTION_DECL" THEN {"FUNCTION"} ELSE {})
     \cup (IF Stars(d) > 0 THEN {"POINTER"} ELSE {})

(* The stars that are still counted at d: up to the first pointer among    *)
(* the parameters of a function, those before its name.                    *)
StarsKept(d) ==
  LET header == Nearest(d, {"FUNCTION_DECL"})
      firsts == {e \in Declared : IsParameter(e) /\ Nearest(e, {"FUNCTION_DECL"}) = header
                                  /\ Before(e, d) /\ Stars(e) > 0}
  IN IF IsParameter(d) /\ firsts = {} THEN Stars(Left(header)) ELSE 0

(***************************************************************************)
(* A symbol has the type its declaration names, and no bit that typearray  *)
(* kept from the one before or from the parameters within it.  It is a     *)
(* pointer of the depth it was declared with, but that the parameters of a *)
(* function that returns a pointer have the function's stars on top, up to *)
(* the first of them that is itself a pointer.                             *)
(***************************************************************************)
TypesExact ==
  Accepted =>
     \A d \in Declared :
        /\ SymbolAt(tables, symbol[d]).type = Specifiers(d)
        /\ SymbolAt(tables, symbol[d]).depth = Stars(d) + StarsKept(d)

(***************************************************************************)
(* node.c:255 says that a function's table is for "the parameters and the  *)
(* remainder of the function contents": each symbol in it, or in a table   *)
(* of a block below it, is declared in a definition or prototype of that   *)
(* function.                                                               *)
(***************************************************************************)
OwnContents ==
  Accepted =>
     \A p \in DOMAIN tables \ {<<>>} : \A k \in DOMAIN tables[p].symbols :
        \E f \in Declared :
           /\ symbol[f] = tables[<<p[1]>>].tablefor
           /\ IsWithin(tables[p].symbols[k].node, Region[Parent(f)])
=============================================================================
