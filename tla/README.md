# SGCC in TLA+

sgcc compiles a subset of C to MIPS assembly for the SPIM simulator. It is a
sequential program of about 3600 lines of C with a flex lexer and a bison
grammar. What is hard in it is not concurrency. Five passes share trees, lists
and global variables, each relies on what an earlier one left behind, and the
assembly that comes out must keep a stack discipline of which every party (caller,
callee, run-time routine) knows a part. This directory holds models of those passes,
of the lexer's values and the parser, of the machine that runs the output, and of the
whole chain; TLC configurations that check them; and proofs about the register allocator,
the frame layout, the symbol tables, the list of IR nodes and the lexer.

## 1. The system

| Part | Code | State it keeps | Operations |
|---|---|---|---|
| Lexer | lex.l | yylval | create_identifier, create_number, create_string |
| Parser, syntax tree | yacc.y, node.c | the parser's stack, the tree of `node` structs | a shift or reduce of bison's automaton; the action of a rule, mostly one `malloc_*` call |
| Symbol tables | symbol.c, node.c 135-302 | tree of `symboltable`s, `currenttable`, `typearray`, `POINTER_DEPTH`, `n->symbol` | build_symbol_tables, create_symboltable, insert_symbol, find_symbol, append_symbol_param, add_array_dimension |
| IR generation | irnode.c | `irlist`, `registernum`, `labelnum`, `visited` and the label in an ELSE node | build_ir, generate_ir_node, new_label, find_ir_node |
| Register allocation | mips.c 288-506 | `t_registers`, the list `rm` | map_registers, setmapping, getmapping, is_live, reset_tregs |
| Frame layout | mips.c 202-280 | `offset` of symbols, `sizeofsymbols` of tables | calculate_offsets |
| Code emission | mips.c 30-199, 509-749 | `stacksize`; of the emitted program: registers, stack, globals | generate_mips, ir2mips, emit_function_entry, _exit, _call |
| Run-time routines | mips.c 751-932 | their own frames, terminal input and output | print_int, print_char, print_factorial, print_square, print_fib, read_int |
| Tree printer | node.c 338-738 | `rightmost`, `end_of_block_list` | print_tree, start_new_block |
| Debug listings | node.c 740-788, symbol.c 330-468, irnode.c 721-775, token.c | none | print_tree_code, print_symbol_tables, print_ir_list |
| Driver | parser.c | files | main |

How they interact: the parser asks the lexer for a token at a time and calls
`process_tree` in the action of `file_scope`, for the finished tree but before it has
asked for the end of the text. It calls `build_symbol_tables`, which sets `n->symbol`
of every identifier; `build_ir`, which reads the tree and the symbols and writes
`irlist`; with -v `print_tree` and the listings; and `print_mips`, which calls
`map_registers` (writes `rm`) and `generate_mips`. That one calls `calculate_offsets`
and then walks `irlist`, asks `rm` for names and the symbols for offsets and sizes, and
prints. All calls are synchronous; everything is passed in global or shared structures.
Nothing reports an error upwards: after `insert_symbol` has printed one, compilation goes on.

What is hard, and the property that would show it going wrong:

* State that outlives its purpose: `typearray`, `currenttable`, `visited`, `rightmost`, the mapping
  in `rm` that is kept after `reset_tregs`, `size` in `calculate_offsets`, `stacksize`.
* Two recursions over one tree (`build_ir` and `generate_ir_node`) that reach the same
  node several times and rely on the `visited` flag.
* Facts known in two places: arguments are pushed one by one, popped by a count taken
  from a declaration, and found by the callee by counting back from the end.
* Limits: ten registers, frame sizes, alignment, 32 bits, the buffer of create_string.
* A grammar that bison accepts with conflicts it resolves without a word.

PROJECT.json lists each of these as a hazard at its line.

## 2. Modules

    Nodes           trees: the malloc_* constructors              Ir   lists of IR nodes
    Grammar         the rules of yacc.y with their actions
    Parser          the automaton bison makes of them
    Printer         print_tree
    CText           how C writes a tree (reference)
    FrontEnd        parser and printer together                   MCFrontEnd
    Lexer           create_number, create_string
    Literals        what C's constants mean (reference)           MCLexer, LexerProofs
    Syntax          trees of the supported part, made by hand
    SymTab          build_symbol_tables                           MCSymTab, SymTabProofs,
                                                                  ScopeProofs
    Tables          a tree of tables: what SymTab owes to Offsets
    IrGen           build_ir, generate_ir_node                    MCIrGen, IrGenValueProofs,
                                                                  IrGenJumpProofs
    PlainStyle      hypotheses on programs, for the proofs about them
    Allocation      what a register allocation is (abstract)
    RegAlloc        map_registers, implements Allocation          MCRegAlloc, RegAllocProofs
    Offsets         calculate_offsets                             MCOffsets, OffsetsProofs
    Mips            the emitted program on a machine
    CSemantics      what a C program prints (reference)
    Compiler        all of them in sequence                       MCCompiler

**Nodes** has a constructor for each `malloc_*` function. A tree is a nested record; a
node is identified by its path from the root ("L"/"R" steps), which stands for its
address, and `parent` is the path without its last step. Tokens are values already.
**Syntax** has one operator for each grammar action that the code generator supports,
with the rule's name, for the programs of the other models.

**Lexer.** A text that a pattern matched is a sequence of codes. A turn of
create_string's loop is one action for each of its branches: an octal escape, another
escape, a slash that begins none, a quote, any other character. `sp1` is the reading
position, `str` what was written. strtoul stops at the largest unsigned long and the
result is stored in an int, with the widths as constants. **Literals** defines, by the
patterns of lex.l and without the loop, what a string and a number mean.

**Grammar, Parser.** Grammar lists every rule of yacc.y with its action, the tree it
makes. Parser is an LR automaton over such a list: a state is the set of rules it is in the
midst of, computed on the way and not read from tables, `stack` holds states with
semantic values, and `status` ends as accepted or error. Like bison's tables it shifts
where it could do both, and reduces without a look at the next token where only one rule
is complete. That is why the action of file_scope, which calls process_tree, comes
before the end of the text is seen. The lexer's -1 for a character that starts no
token is JUNK, an end of file to the parser.

**Printer.** print_tree's recursion is the stack `walk`, with what is printed before,
between and after the children; `rightmost` and the list of open blocks are globals
of node.c. The output is a sequence of tokens. A string constant is printed as create_string left
it, its escapes decoded and not written again (node.c:619): Quoted gives the tokens that the lexer
finds in it, for strings with a quote, a newline or a backslash in them. **CText** writes a tree with the
parentheses that C's grammar asks for, and no others, and **FrontEnd** puts them in a
circle: a program is written, parsed, printed by print_tree, and the printout is parsed again.

**SymTab.** The recursion is a stack `walk` of what is left to do, each entry one of
enter (the code before the switch, and the node's own case up to the recursion),
middle (between the two recursive calls) and leave (after them). A table is named by the
numbers of the children that lead to it; a symbol by its table and position. Table NULL
(after the file scope was left) is `Nowhere`, and reading it or a missing funcinfo sets
`crashed`, as does every other NULL read the code can reach: that of a missing dimension, and of
the name of a block's table (`NoName`), which create_symboltable compares with a
function's when such a table hangs at the file scope. `errors` collects the nodes
for which an error was printed. `find_symbol` searches outwards; prototypes and
definitions of one function share its table; parameters are counted by the first
declarator that has any. `types` is typearray and POINTER_DEPTH, `pointer_depth` the
stars of a declarator on the way down (CountPointer, LeavePointer).

**IrGen.** The two recursive functions are again one stack, `todo`; `vals` is the stack
of returned registers of calls in progress. Actions carry the names of the switch cases
(SwitchIf, GenerateCall, DoParam, ...). A temporary is its number, `registernum` the next
one; a label is a name and a serial number. `DoParam` is the tail of generate_ir_node
that pushes an argument. A return of a call makes `find_ir_node` fail and sets `crashed`.

**RegAlloc.** `irptr` and `operand` are the position of map_registers, `t_registers` and
`rm` as in the code. The chosen name is left in an uninitialised buffer when all
registers are taken: MapJunk then takes any name (`Junk` included), and `spilled`
remembers that it happened. **Allocation** says what an allocation promises, in any order
and with any choice of registers; RegAlloc's IsAllocation is that specification under the
mapping home = the registers given, failed = spilled.

**Offsets.** `tables` maps the path of a table, the child numbers that lead to it from the
file scope, to its symbols and the number of its children. The recursion is the stack
`calls`. `size`, which is uninitialised until a symbol of a sized type is met, starts with
any value of the constant Garbage, which is any set of integers, negative ones included: until
then the alignment loop and the offsets go by it. Where the remainder is by 0 the
compiler dies (DivideByZero, `trapped`); an array of size 0 leads there too. TreesAssumption
says that the tables form a tree and that no array has a negative size.

**Mips.** The registers $t0-$t9, $v0, $ra, $sp, $fp, the stored words, the printed and
read values. One step is the block emitted for one IR node; a call is two, up to its jal
and behind it. A misaligned access, a division by zero, a register without a name, and a
return to no return address trap. Each run-time routine is one step.

**Compiler** declares the variables of all parts and takes each part by INSTANCE: a phase
is a step of its part, enabled when the phase before it is finished, and the machine runs
when all are. Only the trees are chosen; symbols, list, register names and offsets come
from the phases. **CSemantics** is an independent evaluator of the tree, by C's rules,
which takes no part in the steps.

## 3. Runs

Sequential code, so each state has few successors; the breadth comes from the programs.

| Run | Bounds | Shows |
|---|---|---|
| regalloc | 2 registers, 4 temporaries, lists of 4 nodes from 12 shapes | NoClobber: overlapping temporaries have different registers. AllNamed: nothing printed without a name. SpillsUnderPressure: a temporary left without a register meets as many live ones as there are registers. IsAllocation: when that happens all registers are really taken by overlapping ones. Two registers make both reuse and exhaustion happen in four nodes |
| irgen | one function, 11 expressions in 13 statement shapes, nested to depth two | JumpsLand, WrittenBeforeRead, WrittenOnce, ArgumentsPushed, Terminates, ReturnsTellApart (the node find_ir_node finds for a return is the value's own, or the code crashes), and ReadyToAllocate, which is what RegAlloc assumes of its lists |
| irgen_loops | a loop in an if and in a loop | GeneratedOnce fails: nested loops are generated twice |
| offsets | up to two functions, two own symbols, blocks to depth three, the uninitialised size -4, 0 or 3 in each call | ScopesDisjoint, OffsetsAligned, FrameCoversBlocks. The first says of nested scopes what is true of them: they are disjoint if the inner variable's offset owes nothing to garbage |
| offsets_deep | a variable in a block in a block | FrameCovers fails for a block in a block |
| symtab | all programs of three items out of eleven, and of one of them between two items with pointers | LexicalScope, ParametersFirst, TypesExact, OwnContents. Three items let a prototype, a definition and a later use meet in every order, and stars and bits of one item reach the next two |
| symtab_empty | a function with an empty body, then one item | OwnContents fails: its table is never left |
| lexer | all strings of up to five characters out of eight, all numbers of up to four digits out of 0, 1, 7, 9, all characters with an escape; int and long of ten bits | InBounds, StringDecodes, SameCharacter, NumberExact, Ends. Five characters let an escape of every length be followed by a digit, a slash or the end; four digits exceed ten bits |
| frontend | 421 programs: one operator of each of 13 levels on either side of each, 15 unary and 12 conditional forms and such, 26 statements, 23 declarations and definitions, six string constants; ten texts that are not C | ReadsAsWritten: parsed with C's precedence, grouping and nearest else. NoConflict: what bison resolves silently is that else and nothing more. Refuses, BracketsMatch. Reprints: the printout parses to the same tree, but for the constructs of Printable, all of which go wrong |
| compiler | test.c with the parameter of print_int named, and three further programs, one a recursion with three parameters that change places and an operand live across the call; at most two numbers out of 0, 2, 3 are typed | SameOutput, Balanced, OwnFrame, Ends for the whole chain and the running program |
| compiler_test | test.c as it is | Balanced fails: the argument of print_int is never popped |
| compiler_negative | `x && 1` for x = -1 | SameOutput fails: a negative number is false |

In each passing run one type invariant stands for the shape of the state. A property has a
mutant next to the definition it changes ("Mutant:" comments): a small bug of the kind the
code could have, for which the run finds the property violated.

Why these bounds: the inputs 0, 2, 3 take both branches of every test of the four
programs and recurse to depth four; loops run zero to three times. Two operators side by
side are all that precedence and grouping are about. In the runs of
single parts a state is a position in one walk, and a bug needs two or three
constructs to interact, which the pools put together in every combination.

*Fairness.* Lexer, IrGen and Compiler assume WF(Next): the compiler and the simulated
processor are single sequential programs that go on while they can. Terminates and both
Ends rest on nothing else. A program that waits for a number nobody types counts as stopped.
The other specifications are checked for safety only, without fairness.
CHECK_DEADLOCK is off because all of them end.

*What goes wrong in sgcc.* Besides the runs that are expected to fail, these came up, and
the properties name them as exceptions or the programs avoid them (section 5):
a syntax error after the last definition is found when the assembly is already out; a
character that starts no token ends the program without an error; 8 and 9 in an octal
escape swallow a character; a number with a leading zero is read as decimal;
'\377' is 255 but -1 in a string; print_tree puts a comma too
many or too few with nested lists, omits empty statements and the parentheses of a
conditional, and prints a string constant with its escapes decoded, so that a quote in it ends it;
the parameters of a function that returns a pointer inherit its depth; a local prototype of a known
function sends what follows it to the file scope, so that a use is tied to the file's variable and not to the
function's own; the tables of blocks then hang at the file scope and the NULL name of one is read
when the next function is declared; `unsigned x` takes the size of whatever came before it, so that
with a negative one `int f(int a) { { unsigned x; int y; } }` lays y over a; a frame with
a char in it is not rounded to words; an array parameter `int a[]` reads NULL.

*Checks of the models.* The printer's model and print_tree, compiled from the source,
were run on the 415 programs of run frontend without the six string constants, and
create_string and its model on 18427 strings: the outputs were identical.

## 4. Proofs

RegAllocProofs proves, for any number of registers NREG > 0 and any set Irs of lists
that satisfies IrsAssumption (integer register numbers; ends of statement have no
operands; no temporary is used on both sides of one):

* TypeCorrect, NeverClobbers, NamesAll: the invariants of run regalloc;
* Implements: Spec => IsAllocation, step by step a Place, a Fail or a stutter;
* NeverSpillsEarly: a temporary is left without a register only at a node where NREG or more
  temporaries, it included, are live, in the sense of first and last occurrence in the list.

IrsAssumption is what ReadyToAllocate states of IrGen, and EachReadyToAllocate below proves. The argument: is_live looks only
ahead, and only to the next end of statement, whereas NoClobber speaks of the whole list,
so NoClobber is not inductive. IInv adds where the walk stands: every mapped operand
occurs at or before it (Seen), every operand passed is mapped (Met), a register in use
names a temporary mapped to it (Held), and, the heart, a placed temporary either still
owns its register or does not occur from the current node on (Kept). When a register is
taken over, or reset_tregs frees it, Confined turns "not before the next end of
statement" into "never again" (lemmas NoEosBetween, NotLiveDead, ApartNoOverlap). When
no register is available, each belongs to a temporary that occurs both before and after
the current node, so it is Taken in the sense of Allocation (UnavailableTaken). NeverSpillsEarly
needs that and the invariant Pressed, which keeps the number of live temporaries for those that
were left without a register before: the registers map one to one to temporaries that occur on both
sides of the node, none of them is the one that wants a register, and so there are more of them
than registers. It ties what setmapping decides by looking ahead to what the list alone says.

OffsetsProofs proves all four invariants of run offsets, for any tree of tables, of any depth and
with any types, and for any integers in the uninitialised `size` (GarbageAssumption, TreesAssumption):

* TypeCorrect: the walk stays in the tree and every size and offset is an integer;
* NestedDisjoint: two variables of sized types share no byte if they are in one table, or in nested
  ones with no garbage on the way from the outer to the inner (NoGarbage);
* AllAligned: each variable of a sized type lies at a multiple of its element's size;
* FrameCovered: a function's frame ends behind its own variables and those of its blocks, and
  none of them lies below it unless garbage moved it.

Why the exception: a symbol whose type has no size bit, met before any that has one in its
call of calculate_offsets, adds whatever was in memory. Determined says of a symbol that this is not
so, and NoGarbage that it is not so of all symbols in a variable's table and the tables around
it, as far as they are below the outer of the two. Without it the property is
false: run offsets has trees in which a negative garbage breaks it.

ScopesDisjoint speaks of the finished layout and of pairs that different calls placed, so
it is not inductive. Inv adds what holds in the middle of the walk: the active calls are one
path in the tree (Chained), nothing is placed beyond the current position (Ahead) or below
the current table (Under), a call that has met a sized symbol has a size that is not negative
(Settled), and placed pairs are Apart and Aligned. What the positive garbage of a friendlier C would give for
free, that offsets only grow, must be said of the calls that garbage has not reached
(Clean, Rising): what lies in the table that a call is at ends before the call's offset (Before). The
heart is the lemma EndsBefore: whatever encloses a new symbol ends before it, since each call
starts where its caller stands. For FrameCovered a second invariant, Framed, relates `totalsize`
to what is covered.
An array's bytes are a product over its dimensions; that it is defined and positive is an
induction, which the module draws from the well-foundedness of Nat because the
library's theorem takes an operator.

IrGenValueProofs proves EachWrittenOnce, for any set of Programs and with no assumption on them:
a temporary is written by one node of the tree, and by one node of the list but for the two
loads of a logical operator, however often the two recursive functions reach a tree node.
The invariant: what is written is numbered below registernum; what is appended
is numbered at or above it (Fresh), or nothing is written; and the work still on `todo` will
write only so (Clean), because a branch or label in waiting defines nothing and the two loads
belong to a logical operator. $v0, which every return writes, is excepted as in the property.
The same invariant says that no end of statement stands between the two loads.

It also proves, for any program in plain style, of any size,

* EachWrittenBefore: what a node of the list reads was written by an earlier node;
* EachReadyToAllocate: the list satisfies IrsAssumption, on which RegAllocProofs rests.

Neither holds of every tree, so both have the hypothesis Plain of module PlainStyle, which is
a condition on the tree alone. generate_ir_node returns 0 for an assignment (irnode.c:455),
so its value may not be used; the tail of it pushes register `registernum - 1` as the argument
(irnode.c:656), which for f(g()) is a temporary of an earlier statement or number -1, so an
argument must be an expression that loads something; the operands of ++ and -- likewise. MCIrGen
evaluates the condition: every program of run irgen is in plain style but those with a call
among the arguments of a call (242 of 266 are; StyleAssumption). The invariant, ValueInv, is about the
work that is left as a whole: a chain of states (how many values are on `vals`, whether the last may
be no register, whether the last temporary was made in the statement at hand) leads from now
through every item of `todo` to its end, and in its state each item finds what it takes. That a
recursive call returns the value of its node is thus a link of the chain and no induction over trees.

Its last part proves EachReturnToldApart, for any program in plain style that is also
well-formed (below): a constant is returned by a MOVE and a variable by a LIW, and the compiler
reads NULL only at the return of a call, when no node has $v0 as its first operand. Such a
node need not be a return: the branch on a call in a test is one too, after which the return of a call
compiles. The code asks find_ir_node for the last node whose first operand has the number of the value, whatever
the node does with it. So ReturnInv says with what the list ends when a return comes to hand
(Answers): the load of the constant or variable, the FUNCTIONCALL, or anything that has a
temporary of the statement as its first operand; that before each return on `todo` stands
the item that makes its value (Waits); and that no first operand is an immediate
(FirstOperand), so that equal numbers are equal registers.

IrGenJumpProofs proves EachJumpLands: in a well-formed program, whatever statements are nested
in it, every label is placed once and every jump finds its label in its own function.
WellFormed, in PlainStyle, is what the grammar makes and the labels depend on: functions are
not defined in statements, an IF and its ELSE are the two children of one node, a for has its
three clauses, a return is the left child of its statement. It excludes ?:, whose parts are IF_STMT and ELSE_STMT
nodes as well and for which build_ir has no code, and a function defined twice, which the
grammar lets pass and whose label is placed twice. All programs of run irgen are
well-formed (FormAssumption). The argument looks at the list and the work left as one line,
in which a step replaces the first item of work by the nodes it appends and the items it leaves.
JumpInv says of the line:

* OneOwner: a label has one owner in it, the LABEL node or what will append it;
* Landing: whatever jumps to a label, or will, has the owner in the line and nothing between
  the two that starts a function;
* Numbered: the serial numbers of labels are below labelnum;
* ElseLabels, Courses: the label of an else is made by the jump over it, is placed when
  the else is visited, and of the two the jump comes first. This is the heart: the code keeps
  that label in the ELSE node and nothing but the order of the two visits makes it be there;
* AllProper: each item of work fits the node it is about.

The lemma LineKept says when such a replacement keeps all this; then each action is shown to
be one. A loop that build_ir reaches twice gets new labels each time. TypeCorrect, IrGen's
TypeOK for any well-formed program, rests on it: that a label is stored in an ELSE node and
nothing else depends on where elsejump stands.

SymTabProofs proves, for every program whose declarations are as the grammar makes them, of
any size and also when errors are found in it or a NULL pointer ends the walk,

* TypeCorrect: SymTab's TypeOK, so that what an identifier is tied to is a symbol in a table
  that exists, and every table has as many children as tables have it as their parent;
* AlwaysLaysOut: the tables are a tree in the sense of Tables at all times. This is
  TreesAssumption of Offsets: with it OffsetsProofs speaks of the tables of all these programs.

Declarable, in PlainStyle, says what the grammar makes and the tables depend on: a type is a
type word, a function declarator has its name as the left child and no block in it, the
number in an array declarator is not negative. MCSymTab evaluates it on every program of its runs
(DeclarationAssumption). What is not inductive is that the table of the moment exists: the
code opens one, walks what is below and leaves by the parent link, and after the file scope
the table is NULL. StateOK therefore says of the tables that their paths are closed
upwards and numbered without gaps (IsFamily), so that a new table takes no other's place; and
of the walk, item by item (WalkOK): before a function's table is made its name is tied or
is about to be (Tied), and once it is made, everything up to the end of the declarator is
below it, where there is no block that could leave the file scope (InTable), so that the
parent link followed there is that of a table. Each action then either leaves the tables,
changes a symbol (Flagged, SymbolsPut), or adds a table (TableAdded).

ScopeProofs goes on from there to what the tables of an accepted program contain:

* AlwaysLexicalScope: a used identifier is tied to the innermost declaration that C makes
  visible there, and declarations of different scopes have different symbols unless they
  declare one parameter twice, in a prototype and in the definition;
* AlwaysOwnContents: what a table below the file scope holds was declared inside the function
  that the table belongs to;
* AlwaysParametersFirst: the parameters of a definition are the first symbols of its
  function's table, in their order, and the function's symbol counts them, also when
  prototypes or uses came before: what emit_function_entry needs to copy the arguments.

All three need more than Declarable of the program, and Tidy says what. A function declarator
occurs in a declaration or a definition and not inside another one; what is below it is its
name or a parameter; a definition is not nested, and has one declarator on its left and a
block on its right. Most of this the grammar makes; the rest is where the code goes wrong: a
definition with an empty body never leaves its table (node.c:298; run symtab_empty shows
what follows), a prototype in a block is left for the parent of its table, which is the file
scope when the table was found by its name (node.c:283), and the parameters of a function
that is declared among the parameters of another would be counted for both. TidyAssumption of
MCSymTab says which programs of its runs are tidy: those of run symtab without a function
whose body is empty or declares a function, 873 of 1507, and none of symtab_empty.

The invariant SymInv relates the position of the walk to the tables. Each item of the walk is
behind it or still to come (Past, Done, in the order in which a recursion takes them), and the
entries on the stack are linked as calls in progress are (Linked). While no error was
found and no NULL was read there is a map T from the parts of the tree that open a scope
(the file, a function's declarator, a block) to tables such that

* Shape: T is defined for exactly the scopes entered so far, a block's table is below that of
  the scope around it, and the table of the moment is the one of the scope the walk is in;
* IdsDone, BitsDone: the identifiers tied are those the walk has passed, and the FUNCTION bit
  is set exactly between a declarator and its name;
* Entered: each declared identifier has a symbol in the table of its scope, made by it or by
  an earlier declaration of the same name there (Scoped, NamedOnce, Kinds, Defs), and
  the tables of functions hang on the symbols that name them (Funs, Heads, Owners);
* AllFilled, AllResolved: after the head of a definition all symbols of its table are declared
  in it, and each use is tied to the innermost declaration that is visible there.

Why T and not the tables alone: a prototype and a later definition share a table, so that the
tables do not say which declarator the walk is in; the parameters of a definition are found
in the table, not made, and only T says that those found are the same ones (ParameterMirrored).
Each action then has a lemma that gives the new T: the same, or the old one with a new scope.

AlwaysParametersFirst needs a second invariant, CountInv, which is about the counts that
append_symbol_param keeps (symbol.c:104). They are written while a declarator's parameters are
walked and read long after, and params_inserted is all that keeps the second declarator
of a function from counting again. PInv says at every moment that

* OneTable, UsedTables: a function has one table below the file scope, made at one of its
  declarators that the walk has passed;
* AllCounted: of the declarator g that made a function's symbol the symbol counts exactly the
  parameters passed so far (Reached), and the flag is set once g is left and not before
  (Sized); each of them has the place in the table that its order among them gives (Ranked);
  and the table has no other symbols while g is walked (Fits), so that the next parameter gets
  the next place.

A prototype and its definition are then treated alike: whichever comes second has the
same parameters (Tidy and Kinds: the two declarators are equal as trees), its parameters find
the symbols that are there (ParamShared), and counting them once more is prevented by the
flag (LaterOwner). At the end all parameters of g are reached, which gives the property.

LexerProofs proves StaysInBounds for every text between quotes, of any length and with any
escapes (TextAssumption): create_string reads nothing behind the NUL and writes nothing
behind the bytes it allocated. The invariant keeps the text as it was chosen; the case to
argue is an escape, whose two to four characters cannot reach over the closing quote.

Only model-checked: ArgumentsPushed of IrGen (its arguments are listed by a recursive function
that goes up the expression list), TypesExact of SymTab, the values of the lexer, the front end
and Compiler. TypesExact is not a theorem about all tidy programs: the
type bits are cleared when a declaration is left, so that a cast leaves its type to the next
one, and the parameters of a declarator clear the bits for the declarators behind it; and
only declarators, not the types before them, are compared when a function is declared
again. None of this is in the programs of run symtab. Lexer's TypeOK bounds numbers by powers
of two, of which the provers know nothing for a variable exponent. Liveness (Terminates, Ends) and what
recursive definitions compute are out of the prover's reach. Grammar, Parser, Printer,
CText, FrontEnd, Literals and CSemantics use RECURSIVE operators, and Mips takes bitwise
and/or from module Bitwise, so no theorem is stated about them or about Compiler.

## 5. What the models leave out

* Pointers, goto, do, casts, string constants: parsed (and pointers in the symbol
  tables), but without code generation. An operator without a case in generate_ir_node is an uninitialised read.
* The `left` and `right` links that malloc_number_node and malloc_stmt_node do not set are
  NULL here, as in memory that malloc hands out for the first time.
* Array sizes are not negative, and sizes and offsets in Offsets are integers without a bound:
  an overflow of the compiler's own int is left out.
* In SymTab, the blocks of the file scope after it was left by a
  block are not entered (the code reads a NULL table there: `crashed`).
* print_mips is passed currenttable; Compiler's TypeOK states that it is the file scope in
  its programs. A program without main, for which find_symboltable returns NULL, is not run.
* Words of the machine are integers; the values in the runs are far from 2^31.
* The automaton that flex generates (longest match, comments, line numbers), token.c, the
  listings of -v but for print_tree, typecheck_tree, which nothing calls, and the
  opening of files. They read finished data or are pure I/O.
* build_ir copies the label of a function into a buffer one byte too small for it
  (irnode.c:159, malloc without room for the NUL). What that byte belongs to is the
  allocator's affair; IrGen has the label that was meant.
* `returnval` of generate_ir_node is not initialised for a list that is no call (irnode.c:315).
  IrGen chooses between -1 and 0, no register and a register, which is all that any use of it
  distinguishes in the trees of its runs: no operator has such a list as its operand there.
* Strings are members of a small set. Those with a decoded quote, newline or backslash are enough
  for Printer; other escapes decode to characters that are printed and read back as they are.
* The text of a token: an identifier is copied. `( )` as an expression has the value that
  an earlier token left in yylval; Grammar says so, no program in the runs has it.
* int and long are equally wide in run lexer: yylval is an int and carries pointers, so
  sgcc runs where int, long and pointers have 32 bits. Ten bits stand for 32: strtoul,
  the conversion and the property depend on the width in no other way.
* Formatting of the assembly and comments in it.
* Forms that do go wrong in the whole chain are kept out of run `compiler` and are listed
  as hazards with a note: f(g(x)), two calls in one expression, calls with arguments in a
  loop's test, return of an expression, functions without a return, a use of ++,
  nested loops, blocks below the first level, empty bodies, misaligned globals.

## 6. Plan

Done, in this order, most important first: RegAlloc with its abstract specification and
proofs, IrGen (whose list must satisfy the allocator's assumption), Offsets, SymTab, then
Mips and Compiler, which put them together; then the lexer's values, the front end
with the printer, pointers in SymTab, the proofs about Offsets, about IrGen's WrittenOnce and
about the lexer, a recursion with three parameters in run compiler, the proofs that
IrGen's lists are ready to allocate, its jumps land and its returns can be told apart, its
types, and the proofs that the symbol tables are a tree, their references hold, names are
found in the scope that C gives them, and parameters are counted and come first.

Next:

1. Words of 32 bits in Mips, with values at the edge in the programs.
2. Operators without code in IrGen, with the uninitialised read as a choice.
3. Proofs: ArgumentsPushed of IrGen; TypesExact of SymTab for programs in which no declaration
   takes type bits from the one before it.
