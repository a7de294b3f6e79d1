# cqesto in TLA+

cqesto decides quantified Boolean formulas that are not in clausal form. It reads
a QCIR file (a prefix of quantifier blocks and a circuit), builds one SAT solver
per quantifier level and plays the formula as a game between the existential and
the universal player: each level's solver proposes its player's move, a level that
has no move learns a constraint for an earlier level of the same player. This
directory holds TLA+ modules for that algorithm and the data structures under it,
the TLC configurations that check them, and proofs checked by TLAPS.

## 1. The system

| part (under `src/src/`) | state | operations | what makes it correct |
|---|---|---|---|
| `zigzag.cpp` (ZigZag) | level, moves `vals`, `trail`, budget, restarts | `init`, `solve_`, `solve`, `solve_all`, `block_solution` | the answer is the formula's truth value; it ends; enumeration is exact |
| `level_solver.cpp` (LevelSolver) | constraints, variable sets, SAT solver, last result | `add_var`, `add_constr`, `find_cut`, `solve`, `analyze`, `learn` | the cut stands for the moves; learned constraints lose no winning position and mention known variables |
| `level_info.cpp`, `qtypes.h` | prefix, level of every variable | look-ups | every variable has one level |
| `expressions.*`, `idvector.h` (factory) | the tables of gates | `make_and`, `make_or`, `make_not`, `add_operand` | a node means what was asked for |
| `table.h`, `immutable_vector.h` | blocks with reference counts, entries by index | constructors, assignment, destructor, `lookup` | a block lives as long as its handles; an index keeps its meaning; equal nodes are identical |
| `transform.h`, `reduce.h`, `simplify.h`, `eval.h`, `find_cut.h`, `max_qlev.h`, `make_possible.h`, `visitor.h` | memo tables | one visitor each | meaning is preserved, or covered, as each promises |
| `eval_up.cpp` (EvalUp) | inverted graph, watcher lists, values | `init`, `run`, look-up | the values are right and none is missed, run after run |
| `encoder_to_sat.h`, `variable_manager.h` | encoded nodes, next number | Tseitin encoding, `get_val` | clauses say what the circuits say; numbers of variables and gates do not collide |
| `sat_interface.h` and the wrappers | the SAT solver, the numbers declared to it | clauses, solve, model, conflict | an answer in numbers becomes a move, or a part of the cut |
| `stream_buffer.h` | a window on the file | `operator*`, `operator++` | the reader sees the file, however it is read |
| `qcir_parser.*` | name and line being read | one function per rule of the grammar | nothing is passed over; lines are counted right; it ends |
| `qesto_qcir_parser.*` | name tables, prefix, gates | callbacks | the circuit is what the file says |
| `main.cpp`, `options.h` | options, the solver, the exit code | from arguments to answer; the signal handler | the exit code can be trusted |
| `CLI11.hpp` (vendored) | arguments, results of options | `parse` and what it calls | the options are what the command line says |

The parts call each other directly. There is one thread, which only a signal can
interrupt; the program persists nothing. `main` reads the command line, opens the
file, has it parsed (the parser pulls characters from the buffer and calls back with
what it has read; the callbacks call the factory), and hands the circuit to ZigZag,
which owns one LevelSolver per level and one more. What is hard is not concurrency
but long sequences of legal steps: a
constraint learned at one level is used a thousand conflicts later at another, the
trail is popped and pushed again, EvalUp's watcher lists are left where the last
run moved them, simplification uses facts the SAT solver found meanwhile. Every
choice is the SAT solver's: which model, which core. A test sees one of them, the
models here see all. The same holds of `gzread`, which may cut the file anywhere, and
of the order in which the many short-lived vectors come and go.

`PROJECT.json` lists the hazards at their lines and the properties that cover each.

## 2. The modules

    Qbf ── Cegar ── CegarProofs                 what the solving loop promises
             │  └── MCCegar
             │ (refinement)
    Circuit ── ZigZag ── MCZigZag               the solving loop as coded
      │ │          └── ZigZagProofs             (also uses the next and CegarProofs)
      │ └── CircuitProofs                       the passes, for every circuit
      ├── Encoder ── MCEncoder                  one level solver down to clauses
      │     └── EncoderProofs
      ├── Parser ── MCParser                    from statements to circuits
      │     └── Passes ── MCPasses              the circuit passes
      │           └── PassesProofs              (of Parser and Passes)
      └── EvalUpCircuit ── EvalUp               incremental evaluation
              │   └── EvalUpProofs
              └── MCEvalUp
    Cursor ── StreamBuffer ── Lexer ── MCLexer  from characters to statements
     (refinement)                   └── LexerProofs
    Sharing ── SharingProofs                    vectors, counts and the table
        └── MCSharing
    Declarations ── CommandLine ── Main ── MCCommandLine   from arguments to exit code

**Qbf** is the game: levels, players, strategies. `Winning(q, l, p, matrix)` says
that player `q` can force its goal from position `p` after level `l`, by a set of
strategy functions. No recursion is needed, so it can be used in proofs.

**Cegar** is the loop without circuits. A level's constraints are the set
`allowed[l]` of assignments they admit; a move is any extension of the moves so
far that is allowed; a conflict at level `lev` refutes any set `R` of positions of
an earlier level `bt` of the same player that contains the current one and from
which no reply is left (`Replies`). `MayRestart` and `Enumerate` add restarts and
the blocking of solutions.

**ZigZag** translates `ZigZag` and `LevelSolver`. One action is one turn of the loop
in `solve_` (`HasSolution`, `Conflict`, `Decided`), or a step of its callers
(`Return`, `BlockSolution`).

| code | here |
|---|---|
| `lev`, `vals`, `trail`, `confl_budget` of `solve_`; `curr_restarts` of `solve` | the variables of those names |
| `LevelSolver::constrs`, `lastSolve`; the model of `solvers[0]` | `constrs`, `last_solve`, `model` |
| return value of `solve_`; where the program is | `status`, `pc` |
| `sat.solve(cut)` | any element of `Models(lev, Cut(lev))`, or any `core` of the cut with no model |
| `add_constr` | `AddConstr`, with `Strengthened` for Simplify |
| `analyze`, `learn` and the popping loop | `Analyze`, `Learned`, `Kept`, `Popped`, `OppMoves` |
| `init` with its `Substitution`s `exs`, `uns` | `FirstConstraint` |
| `luby` | `LubyExponent`, in integers |

A core in the program is one the SAT solver found, with no promise that it is
minimal; all unsatisfiable subsets of the cut are admitted. When a restart is due
the action `Conflict` includes the return from `solve_` and the next call. The
MiniSat build (plain `./configure`, `USE_MINISAT`) lets Simplify replace nodes
whose value the SAT solver has fixed; with `RootFacts = TRUE` any subset of the
encoded nodes with a fixed value is used. CaDiCaL (`./configure -c`) is
`RootFacts = FALSE`.

**Circuit** has the nodes, the factory and every pass as operators. A node is a tuple
that starts with its `NodeType`; operands are a set, as an `IDVector` is sorted and
unique. A pass is a recursive function on the constant `Node`, the set of all
circuits, so that it can be proved about. Nothing enumerates `Node`: in the
configurations it is `Any`, TLC's set of everything, and TLC computes a function at
the nodes it meets.

**Encoder** is one LevelSolver below the level of ZigZag: `add_var`, `add_constr` and
`solve` in any order the program can call them. `sat` is the encoder and its solver:
`last` of the VariableManager, the number of variables declared (`new_variables`
differs between the three wrappers), the clauses and the encoder's memo. The SAT
solver is external: `SatModels` is every assignment that satisfies the clauses, and
`FixedLiterals` bounds what MiniSat may have derived at decision level zero; any
subset of it is used. `memo` is the table Simplify keeps between constraints. The
answer of `solve` is decoded as `val` and `cut2id` decode it. ZigZag takes for granted
what Encoder checks, so that its nodes may stand for numbers. The encoding is a function
on `Node` and on `Sats`, the states of the encoder and its solver, which nothing
enumerates either.

**StreamBuffer** is the input buffer and **Cursor** what it promises, a walk through the
file. The buffer asks for `sizeof(buf)` bytes, the size of a pointer; `Chunk` is that
number, and `gzread` returns any number of bytes from one up to it. **Lexer** is
`QCIRParser`: `todo` is the stack of calls still to be made, `Calls(f, x, c)` what
function `f` does when it meets character `c`. The only steps that move the cursor are
`MatchChar`, `MatchLetters`, `NextChar`, `Sign` and `VarChar`. Keywords have two
letters, the format is `qc11` for `qcir-14`; names are made of `e` and `1`. `NDEBUG` says
that the build has no assertions, as the default build (`Release`, CMakeLists.txt:22-25).
It matters for a file that ends in a comment line of its header, without a line end:
`skip_line` calls `nlchar` at the end of the file, where it asserts a line end
(qcir_parser.cpp:273). With assertions the program stops there; without, a line is
counted that there is not, and the error that follows in any case names a line one too
high. `LineRight` allows this and no other case. LexerFiles takes `TRUE`, the theorems
hold for both.

**Parser** takes over where Lexer's callbacks arrive: it reads a file statement by
statement; names are model values, variables are numbers. `meaning` is a history
variable: what the gates read so far say. **Passes** states what the circuit passes
promise of every circuit the parser makes, and compares `FindCut` and `EvalUp` with the
second versions the authors keep, `FindCutNoRec` and `DbgCmpEval`.

**Sharing** has the handles that exist (`at`: local variables of the program, and the
table's two copies of every entry), the heap with its counts, and the table. `answers`
is a history variable, what `lookup` ever said. A vector is sorted and unique, so its
content is a set.

**Declarations** has the calls of `main.cpp:58-90` that declare the options, and what
CLI11 makes of them before it reads an argument: names split at commas, checked and
sorted into short, long, negated and positional ones, the number of values expected, the
policy for several values, the default. A declaration it refuses would be an exception
that nothing catches; `App.threw` says there is none. It is a fold over a constant
sequence, without state; **CommandLine** starts with its result in the variable `option`
and takes from it all it says of an option. CommandLine is the parsing itself. An argument is a
sequence of symbols, in which `-`, `=`, `!`, digits and the letters of clusters are
symbols of their own and a name is one symbol. One action reads one argument, by its
class (`Recognize`); `Process` is what happens when none are left. **Main** goes on from
there: one action per part of `main`, the signal handler between any two of them, with
the reader and the solver giving any of their results.

**EvalUp** is `eval_up.cpp` step by step: `init` visits a constraint (`StartInit`,
`InitNode`, `EndInit`), `run` propagates (`StartRun`, `Propagate`, `EndRun`). The
inverted graph is `seen` with `Ops`; `may[v][o]` are the gates watched at `o`. The
order in which the stack and the hash tables give nodes is left open. Its graph is any
graph; **EvalUpCircuit** makes the nodes circuits of Circuit, so that its answers can be
compared with Circuit's recursive `EvalUp`.

Operators called `...Without...`, `...Any` and the like, marked "plausible mistake",
are wrong variants of the definition that follows them. They are used by no
specification; each shows that a property notices that mistake (see `mutants` in
`PROJECT.json`).

## 3. What the runs show

All bounds are constants of the `.cfg` files or definitions of the MC modules.

| run | states | question |
|---|---|---|
| CegarRuns | 7 196 | E f A u E x, all 256 matrices, full abstractions, a restart possible at every conflict, enumeration projected to f: no winning position is excluded, a verdict is right, a reported move wins, every conflict learns something, it ends |
| ZigZagEnumerates | 14 980 | `-X` with a free variable over A E A after the first block, a parity under a multiplexer, default options, MiniSat build: trail and moves agree, a cut stands for the moves, every solution is found exactly once, the printed move of a won game wins, it ends |
| ZigZagRestarts | 161 573 | empty and adjacent blocks, lazy abstractions, Luby restarts, `-a -f -c` and no Simplify: a constraint mentions variables its level knows, the answer is right, ZigZag implements Cegar |
| LexerFiles | 658 533 | files of up to three blocks and two gates, in every layout (LF, CR, CR LF, capitals, blanks, comments, no last line end), with any character changed or broken off anywhere, in a release build: well-formed ones are read to what they say, nothing is passed over, lines are counted, reading ends |
| ParserFiles | 115 102 | all prefixes, then all pairs of gates (and, or, xor, ite, AND-only mode): the blocks partition the variables, free variables first; the circuit computes what the gates say |
| PassesCircuits | 72 167 | Simplify, Reduce, EvalUp against Eval, FindCut, MakePossible on every circuit of three gates |
| EvalUpRuns | 21 511 | two constraints with a shared gate, all orders, runs repeated: values, nothing missed, agreement with the recursive definition, every run ends |
| SharingVectors | 21 752 | three handles, three addresses, two entries, contents whose hash codes collide: counts, immutability, indices |
| EncoderRuns | 24 167 | the numbers 1 and 3, three of five constraints that share nodes or contradict each other, all three back ends and all three kinds of cut: clauses, simplification, numbers, decoding |
| CommandLines | 310 158 | every line of up to three of 24 arguments (clusters, values, negated names, `--`, junk), and any course of the program after it: options, exit code, the end |
| ZigZagBlocksLostGame, ZigZagPrintsLosingMove | | the two findings below |

**Independent definitions.** What a run compares with is not the code once more. The
value of a formula is `Value` (ZigZag) and `Winning` (Qbf); a gate's meaning is collected
name by name (`meaning`); the text of a file is compared with the callbacks put
together again (`Stripped`, `Unparsed`); the lines are counted in the file; a command
line is taken apart argument by argument and the last word on an option looked up
(`Parts`, `Said`, `Means`), where the code walks through a stack of arguments it
changes as it goes.

**Bounds.** Three or four levels are enough for the interesting cases of the loop: a
conflict that goes back past an opponent's level, a core that skips a level of the
player itself, the extra level N. Every level has one variable (two when a free one
joins), so that all 2^3 or 2^4 assignments and many matrices fit; a level with
several variables adds no control. Cegar takes all matrices; ZigZag takes families
of circuits (`TwoGates`, `Muxes`, `DeepMuxes`) chosen so that cuts lie strictly
inside the circuit and learned constraints are gates. `RestartFirst` is 100 in the
code; ZigZagRestarts takes 2, so that the budgets are 2, 2, 3, ... and restarts
happen after every few conflicts. The parser's bounds (`MaxBlocks`, `MaxBlockSize`,
`MaxGates`, `MaxArgs`) let a gate read a gate, an operand repeat, a name be redefined
and a gate take the name of a variable and hide it. EvalUp has no bound but the
circuit: runs and additions may go on forever. `Chunk` is 2 in LexerFiles, so that a
chunk ends in every word and between CR and LF. Two numbers with a gap are what
the encoder needs to give a gate a number between them or after them; three
constraints, that a memo from the first is used in the third after the second has
fixed something. `MaxEntries` is 2, for two contents that collide. Three arguments let
a switch be said, taken back and followed by a word or by `--`; `MaxModels` is 2.

Two runs have a state constraint, as what a gate means does not depend on how its
variables are quantified. `GatesAfterOneBlock` (MCParser) reads gates only after one
existential block of all variables; the prefixes themselves are all read. `OneFile`
(MCPasses) also chooses the output before the gates and names the gates in order, so
that files that differ only by names are read once. `CHECK_DEADLOCK FALSE` is given
only for these two, where the program stops after reading its input.

**Fairness.** One thread runs the program, nothing waits, every SAT call and every
`gzread` returns: weak fairness of `Next` in Cegar, ZigZag and Lexer (CegarRuns,
ZigZagEnumerates, LexerFiles). In EvalUp only the loops inside `init` and `run` are fair
(EvalUpRuns); nothing says that another call comes. In Main it is `Work`, everything
but the signal handler: no signal need ever come. Encoder and Sharing have no
liveness: nothing says that a call comes.

**Findings.** Two runs are expected to fail.

* `ZigZagBlocksLostGame`: enumeration (`-X`) of a true formula whose first block is
  universal. `solve()` returns true because level 0 has no model, and
  `block_solution` (`zigzag.cpp:81`) is called; its assertion in line 87 fails.
* `ZigZagPrintsLosingMove`: the `v` line (`zigzag.cpp:121`) is printed whenever the
  last call of `solvers[0]` found a model. The search that ends the enumeration may
  end with false at a deeper level, and then a losing move is printed, whereas the
  help text (`main.cpp:84`) speaks of winning moves. `PrintedMoveWins` states what
  does hold: the line is right when the first player wins. `EnumerationExact` shows
  that the count is not affected.

## 4. What is proved

For all values of the constants, under the assumptions named in the modules
(`NAssumption`, `QLevAssumption`, ..., in EvalUp `KindAssumption`, `OpsAssumption`,
`ComplAssumption`; the variables and nodes of Cegar and EvalUp need not even be finite
in number). Three hypotheses are stated in the theorems themselves:

* `IsNodeSet` (CircuitProofs): `Node` is a set of well-formed finite circuits that is
  closed under the factory. It is a hypothesis and not an assumption because TLC
  could not evaluate it. `NodeSetExists` proves that there is such a set, the
  circuits built from the leaves in finitely many steps.
* `IsSatSet` (EncoderProofs): `Sats` is the set of all records of two numbers, a set of
  clauses and a memo. It only names a set, so it can be met; TLC, which could not
  enumerate that set, runs with `Any`.
* `FirstMoverCounts` (ZigZagProofs): solutions are enumerated only when the first
  block is existential. Without it the program does what the finding
  `ZigZagBlocksLostGame` shows. When nothing is enumerated it holds.

**CegarProofs.** The invariant `AbstractionSound` says that a level's abstraction
admits every position its player can win from, except reported first moves. It is
inductive only together with: the shape of the state; `OnlyShrinks` (the last two
abstractions stay inside the player's goal, so that an allowed total assignment is a
win); `MovesAllowed`; what the verdict, once given, says (`FirstMoveDecides` says it of
the first move made). The step that matters is
`Learn`: if the player could win from a refuted position `r` of level `bt`, its
strategy could answer the opponent's moves as they were made, up to level `lev`; the
play is a position of `lev` it still wins from, so by the invariant `allowed[lev]`
has an assignment for it, which is one of `Replies(bt)` and agrees with `r`, a
contradiction. The same argument with `bt = -1` gives the verdict. From it follow
`VerdictsSound`, `EnumerationSound`, `LastLevelNeverMoves` and, as an action
property, `LearningMakesProgress`. The last section has the rules of the game itself:
who has won when all levels are played (`GameOver`), that a player who can win can
move to where it can (`WinningMove`), and that one who can win has a strategy for
all replies at once (`WinningReplies`), put together from one for each.

**CircuitProofs.** What a recursive function computes is proved by three lemmas that
take the place of an induction rule: a set of numbers has a least element
(`NatMin`); a map that looks only at smaller ranks has a fixpoint (`Fixpoint`); a set
that has a node whenever it has what is below it has them all (`NodeInduction`).
With them every pass gets its equations (`HoldsEqs`, `ReduceEqs`, `SimplifyEqs`, ...) and
then the theorem about what it does: `ReduceRight`, `SimplifyRight`, `EvalRight`,
`EvalUpRight`, `FindCutRight`, `MaxQLevRight`, `MakePossibleRight`. The factory is under
all of them (`MakeAndRight`, `MakeOrRight`, `SplicedAllRight`): with any options a gate
means what was asked for. The subtle one is Simplify, where literals of a gate are
put into its other operands: `PropagateRight` rests on the others being looked at
only where the literals have the values put in. `MakePossibleExcludes` is why
learning makes progress.

**PassesProofs** begins with the parser. `Numbered` says that the names declared so far
have the numbers from 1 on, each once; `BlocksRight` that the blocks together with the
one being read partition them. With these the circuit of every gate means what the gate
says (`FileMeans`): a gate reads names already defined, and a name that is defined again
changes no circuit built before.

Then it has the passes of CircuitProofs over any circuit the parser can make, as the runs
state them. `FindCutNoRecRight` proves that the cut found with a work list is the
recursive one whatever the order: the recursion is over the nodes seen, and the
invariant says that what is still to be found is below the list.

**ZigZagProofs.** `BookInv` says that the trail is a list of the moves of the levels
below `lev`, level by level, that `vals` is the set of them, that every constraint is
a circuit over the variables its solver knows, and what `pc` and `status` say. From it
come `TrailRight`, `ScopeRight` and `CutRightAlways`. `TrailKept` is the backjump: popping
while the level is at least `bt` leaves the moves below `bt`, because the levels on
the trail do not decrease.

The refinement is `LoopImplementsCegar`. `Loop` is an instance of CegarProofs whose
`allowed[l]` are the assignments that satisfy the constraints of level `l`; a move is a
`Move` (`LoopMove`), a conflict a `Learn` or a `Lose` (`LoopLearn`, `LoopLose`), a blocked
solution a `Block` (`LoopBlock`), a restart a part of the conflict before it. What a
conflict has to show is that the learned constraint excludes the positions in
`Refuted`, which contain the current one (`LearnedExcludes`) and have no reply left
(`LearnedRefutes`): a core that cannot be satisfied stays so for all moves that keep
its nodes true, and MakePossible keeps every position of the player for which it
could be otherwise.

So everything proved of Cegar holds of the program. `AnswersRight` needs one thing more,
that one of the players wins (`Determined`), by induction from the last level up;
then a sound verdict is the right one. `PrintedMovesRight` follows from
`FirstMoveDecides`. For `EnumerationsRight`, `CountInv` adds that the count is the number
of solutions blocked; a solution is new because the first level no longer allows the
old ones, and at the end every winning first move has been blocked, or the first
level would still allow it.

**EvalUpProofs.** `IInv` has five parts besides the types: the graph is closed but for
what is pending (`GraphInv`); every gate in it has exactly one witness
(`WatchedOnce`, `Watched`); known and pending values agree with every valuation of
the circuit under the assumptions (`RightInv`); what the value of an operand means for a gate
is known or pending, for the operand at which the gate is watched or that decides it
(`NoticedInv`). The last one is where the watcher scheme is subtle: a witness may
move only to an operand without the value, so that a gate watched at an operand with
the value has been pushed. `RightInv` needs `WatchedOnce`: a gate is pushed by
`push_may` only for the value all of its operands must have.

That the answers are those of the recursive definition (`AgreesAlways`) takes one more
part, `ReasonInv`: every value has its reason in the values of the operands or in the
assumptions, and none comes from the run before. With `NothingMissed` it settles a node
whose operands are right (`AnswersGiven`); the rest is an induction on nodes, for which
the module takes an instance of CircuitProofs (`On`) at the set of all circuits. Hence
the hypothesis `On!IsNodeSet`, met by `NodeSetExists`.

**EncoderProofs.** A SAT solver under arbitrary constraints, variables, facts, models and
failed sets. `EncoderInv` has, besides the shapes:

* `SatConstrs`: the constraints are encoded and `SatRight`. The encoder's memo has with a
  node all below it, a literal has its variable's number, a negation the other sign of
  its operand, and a gate or constant a number of its own, up to `last` and no
  variable's; the clauses are the units of the constraints and those of the nodes in the
  memo, no more and no less.
* `NoGates`: while variables are added no gate has a number. Without it `Alloc` could be
  given a number already taken.
* `VarsDeclared`: a model has a value for every variable, whichever of the three ways
  the wrappers count.
* `MemoSame`: what Simplify's memo keeps means the same as the node it is kept for wherever
  the constraints hold. It stays so because constraints are only added.

`NumbersApart` is a part of `SatRight`. For the encoding, `Encodes` is the contract of a
node: from any right state it leads to a right state that has the node, has lost
nothing, and has added nothing of a higher rank. `ThroughRight` chains the contracts of
the operands, in any order; the rank shows that a node's operands do not encode the node
itself, whose number is taken before theirs. `ModelSays` then reads the clauses: by
induction on nodes, a model gives the literal of every node in the memo the node's value.
`ModelOf` is the other direction: an assignment of the variables extends to the gates,
since their numbers are apart, so no clause constrains the variables but for the units.
The two are `ClausesFaithful`. A fact of the SAT solver is true in all its models, hence
wherever the constraints hold, and so `SimplifiedRight` follows as in CircuitProofs.
`AnswerDecoded` is `SatisfiableRight` and `UnsatisfiableRight`: values read from a model
below its size, and assumptions whose negations come back and are negated again.

**LexerProofs.** The invariant `Window` says that the buffer is the last part of what
`gzread` has handed out, and that the cursor is inside it unless the file is at its end; a
refill re-establishes it whatever number of bytes came. `ReaderSeesFile` follows, and
`BufferIsCursor`, the refinement: an advance is one step of the cursor, or a stutter at
the end of the file. Byte, EOF, Promoted and Chunk are arbitrary.

The rest is about the parser on any file. Its state is a stack of calls, so the
invariant has to say what each call is for. A *place* is how far what was told is from
what was read (`Gap`: the parser may be ahead by a word it has matched, owe a character
it has already told of, or hold a sign or a name), whether it is in a comment, whether
it is in the middle of the end of a line, and what can be under the cursor. `Ok(a, p, q)`
is the contract of call `a`: made at place `p` it leaves place `q`. `Leads` chains the
contracts of a sequence of calls, and `LexerInv` says that the calls on the stack lead
from where the parser is to a place where it has told of all it has read. For every rule
of the grammar there is a lemma that what it calls leads where its contract says
(`...Leads`, and `...Fits` where it depends on the character), and for every action one
that it keeps `LexerInv` (`...Keeps`). At the end the stack says there is nothing left to
tell, so `NothingLost` follows; `LineRight` because only inside `nlchar` the place says that
the line is yet to be counted.

One step leaves this course: `nlchar` at the end of the file in a release build
(`Overcounts`). `LexerInv` alone does not say that it happens only in the header, as it
says where calls lead and not which calls there are. So `HeaderInv` adds the stacks of
calls there can be: those of the header, which are few and listed, and else only calls
that do not come to `nlchar` but at a line end (`Plain`, `CallsPlain`). After the step,
`Lost` lists the calls that are left, and none of them accepts the end of the file. The
invariant is `ParserInv`: `LexerInv` with `HeaderInv`, or `Lost`. It speaks of all chains of
places, so TLC cannot evaluate it; what follows from it is what LexerFiles checks.

**SharingProofs.** `Inv` says that a block's count is the number of handles that point to
it and that every handle points to a block in use or to none (`Counted`); that what a
handle says of its content is so (`HandlesRight`, without which the table could not
compare); that every entry of the table has its two handles (`TableRight`); and
`IndexFaithful`. Each operation is a step of one or two handles, so the lemmas
`HandleAdded`, `HandleGone` and `BlockAdded` do the counting once, and every action
cites them; `CopyStep`, `AssignStep`, ... have one step per part of `Inv`. The hash code
is any function, places, addresses and elements any sets.

Only checked by TLC: liveness (out of the prover's reach), Lexer's `ReadsWellFormed` and the
properties of CommandLine and Main. These compare with a second reading of the whole
input, which would need an induction over it; `ExitCodeTells` asks of that reading whether
solutions were to be enumerated.

## 5. Not modelled

* Of CLI11: subcommands, option groups, validators, needs and excludes between options,
  configuration files, environment names, transformations of values and the
  formatting of help. No option of this program uses them; they are most of the file.
* Printing: `ExpressionPrinter`, `NiceExpressionPrinter`, statistics, version, the text
  of messages.
* `set_polarities.h`, `randomize` and `bump`, which steer the SAT solver's choice, and
  the SAT solvers themselves: any model, any core.
* `inversion.h` and `NegationPusher` of `visitor.h`, which nothing calls; the latter could
  not be linked, since it calls pure virtual functions of its base class.
* Errors of `gzread` and what a signal handler breaks when it interrupts the library.
* The memo tables of visitors that live for one call only: they change no result.
* How `LevelInfo` stores the levels: a table by number that grows (level_info.cpp:15-18). Here
  `qlev` is a function on the prefix's variables, so an index outside the table cannot show.
* A prefix without blocks (`PrefixAssumption`), for which `qlev_count() - 1` wraps around.

The parts under `src/src/` that carry the program's own logic are all modelled; what the
list leaves of them is output. The larger part of the source by size is CLI11, of which
a small share runs.

## 6. What is next

Every safety property of a state that does not read the whole input again is proved. What
a proof of `ReadsWellFormed` and `OptionsAsSaid` needs, an induction over the file and
over the command line, would have to be built by hand as in CircuitProofs
(`NodeInduction`).
