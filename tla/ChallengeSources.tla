--------------------------- MODULE ChallengeSources ---------------------------
(***************************************************************************)
(* Where challenges come from when the board does not plant them: the      *)
(* feed of a live publisher, or public combinatorics.                      *)
(*                                                                         *)
(* Seeding the thin publisher from the live feed: signed rows are pulled   *)
(* page by page with the (ran_at, id) cursor, stored once, and a durable   *)
(* watermark lets a killed seed resume; then the live board is mirrored.   *)
(*                                                                         *)
(* Sources: seed_live.py, insert_row, recent_rows and set_seed_state of    *)
(* store.py, leaderboard_recent and _start_seed of app.py.  A feed row is  *)
(* [ran, id, kind]: "sound", "nokey" (no id or no ran_at, the seeder skips *)
(* it) or "partial" (another column is missing, insert_row raises).        *)
(*                                                                         *)
(* Unplanted challenges: graph k-colouring and Latin-square completion     *)
(* encoded as CNF, or a file of an on-disk corpus.                         *)
(*                                                                         *)
(* Source: real_corpus.py.  A literal is an integer, negative when the     *)
(* variable is negated; a CNF is a set of clauses, a clause a set of       *)
(* literals.  The seeded random draws are choices: the properties hold for *)
(* every draw.  The backtracking search of _find_coloring is kept step by  *)
(* step.                                                                   *)
(***************************************************************************)
EXTENDS Absent, Integers, Sequences, FiniteSets, Functions, SequencesExt

-----------------------------------------------------------------------------
(* The live feed                                                           *)

CONSTANTS
    FeedRows,      \* rows of the live feed
    PageLimit,     \* page_limit
    SeedFaults,    \* calls that may fail: "fetch", "insert", "checkpoint"
    LiveBoards,    \* boards the live publisher may show: sets of challenge ids
    LocalIds,      \* challenge ids already minted locally
    MaxSeedFaults, \* bound on failures
    MaxPasses      \* bound on passes

(* Ids start at 1, and are those of one table.                             *)
ASSUME SeedAssumption ==
    /\ PageLimit \in Nat \ {0} /\ {MaxSeedFaults, MaxPasses} \subseteq Nat
    /\ IsFiniteSet(FeedRows)
    /\ \A r \in FeedRows : r.ran \in Nat /\ r.id \in Nat \ {0} /\ r.id # NONE
    /\ \A r, s \in FeedRows : r.ran = s.ran /\ r.id = s.id => r = s

VARIABLES
    stored,     \* eval_runs of the thin publisher
    mark,       \* seed_state: [ran, id], two separately written keys
    seeder,     \* the seeding task: [pc, ran, id, page, short, newest]
    mirror,     \* mirrored lane_challenges: id -> "external" | "local"
    passes, seedFaults,
    jumped      \* history: rows that a half-written watermark passed over

seedVars == <<stored, mark, seeder, mirror, passes, seedFaults, jumped>>

Started == [pc |-> "rest", ran |-> 0, id |-> NONE, page |-> <<>>, short |-> FALSE,
            newest |-> [ran |-> 0, id |-> NONE]]

(* A missing id compares as the empty string does.                         *)
OrZero(i) == IF i = NONE THEN 0 ELSE i
tuple_gt(a, b) == a.ran > b.ran \/ (a.ran = b.ran /\ OrZero(a.id) > OrZero(b.id))

Ordered(S) ==
    [k \in 1..Cardinality(S) |->
        CHOOSE r \in S : Cardinality({x \in S : tuple_gt(r, x)}) = k - 1]

(* The feed's answer: the first PageLimit rows after the cursor.           *)
recent_rows(ran, id) ==
    LET after == Ordered({r \in FeedRows : tuple_gt(r, [ran |-> ran, id |-> id])})
    IN  SubSeq(after, 1, IF Len(after) < PageLimit THEN Len(after) ELSE PageLimit)

SeedFault(call) ==
    call \in SeedFaults /\ seedFaults < MaxSeedFaults /\ seedFaults' = seedFaults + 1

(* Each pass reads the watermark; without one it starts some days ago.     *)
StartSeed ==
    /\ seeder.pc = "rest" /\ passes < MaxPasses
    /\ passes' = passes + 1
    /\ seeder' = [Started EXCEPT !.pc = "fetch", !.ran = mark.ran,
                    !.id = IF mark.ran = 0 THEN NONE ELSE mark.id,
                    !.newest = [ran |-> mark.ran,
                                id |-> IF mark.ran = 0 THEN NONE ELSE mark.id]]
    /\ UNCHANGED <<stored, mark, mirror, seedFaults, jumped>>

(* Mutant: the watermark moves over a page before its rows are stored.     *)
leaderboard_recent_marked ==
    /\ seeder.pc = "fetch"
    /\ LET page == recent_rows(seeder.ran, seeder.id)
       IN  /\ page # <<>>
           /\ seeder' = [seeder EXCEPT !.pc = "insert", !.page = page]
           /\ mark' = [ran |-> Last(page).ran, id |-> Last(page).id]
    /\ UNCHANGED <<stored, mirror, passes, seedFaults, jumped>>

(* A live publisher that cannot read its database answers a warming page   *)
(* without items: the pass ends as if the feed were drained.               *)
leaderboard_recent ==
    /\ seeder.pc = "fetch"
    /\ \/ LET page == recent_rows(seeder.ran, seeder.id)
          IN  seeder' = IF page = <<>> THEN [seeder EXCEPT !.pc = "board"]
                        ELSE [seeder EXCEPT !.pc = "insert", !.page = page,
                                            !.short = Len(page) < PageLimit]
       \/ seeder' = [seeder EXCEPT !.pc = "board"]
    /\ UNCHANGED <<stored, mark, mirror, passes, seedFaults, jumped>>

(* The newest row seen moves with every row that has a key.                *)
insert_row(r) ==
    IF r.kind # "nokey" /\ tuple_gt(r, seeder.newest) THEN [ran |-> r.ran, id |-> r.id]
    ELSE seeder.newest

(* Rows are stored one by one; the page cursor follows the feed's reported *)
(* position once the last one is in.                                       *)
SeedRow ==
    /\ seeder.pc = "insert"
    /\ LET r == Head(seeder.page)
           last == Len(seeder.page) = 1
       IN  /\ r.kind # "partial"
           /\ stored' = IF r.kind = "nokey" THEN stored ELSE stored \cup {r}
           /\ seeder' = [seeder EXCEPT !.page = Tail(@), !.newest = insert_row(r),
                           !.pc = IF last THEN "ran" ELSE "insert",
                           !.ran = IF last THEN r.ran ELSE @,
                           !.id = IF last THEN r.id ELSE @]
    /\ UNCHANGED <<mark, mirror, passes, seedFaults, jumped>>

(* The checkpoint of a page: two writes, first ran_at, then the id.  A page *)
(* shorter than the limit is the last one.  The checkpoint at the end of a *)
(* pass writes what is there already (or where an empty first one began).  *)
MarkRanAt ==
    /\ seeder.pc = "ran"
    /\ mark' = [mark EXCEPT !.ran = seeder.newest.ran]
    /\ seeder' = [seeder EXCEPT !.pc = "id"]
    /\ UNCHANGED <<stored, mirror, passes, seedFaults, jumped>>

MarkId ==
    /\ seeder.pc = "id"
    /\ mark' = [mark EXCEPT !.id = IF seeder.newest.id = NONE THEN @ ELSE seeder.newest.id]
    /\ seeder' = [seeder EXCEPT !.pc = IF seeder.short THEN "board" ELSE "fetch"]
    /\ UNCHANGED <<stored, mirror, passes, seedFaults, jumped>>

(* A failed call, or the end of the process: the next pass starts from the *)
(* watermark.  The error path of a pass writes no watermark.  Between the  *)
(* two writes the new ran_at is beside the old id, which may be above the  *)
(* last row seen.                                                          *)
SeedFails ==
    /\ \/ seeder.pc = "fetch" /\ SeedFault("fetch")
       \/ seeder.pc = "insert" /\ SeedFault("insert")
       \/ seeder.pc \in {"ran", "id"} /\ SeedFault("checkpoint")
       \/ seeder.pc = "insert" /\ Head(seeder.page).kind = "partial" /\ UNCHANGED seedFaults
    /\ jumped' = IF seeder.pc # "id" THEN jumped ELSE
                  jumped \cup {r \in FeedRows : tuple_gt(r, seeder.newest) /\ ~tuple_gt(r, mark)}
    /\ seeder' = Started
    /\ UNCHANGED <<stored, mark, mirror, passes>>

(* The board is mirrored as metadata: a local row is never touched, and a  *)
(* mirrored row the live board no longer shows is left as it is.           *)
seed_board ==
    /\ seeder.pc = "board"
    /\ \E shown \in LiveBoards :
         mirror' = [i \in DOMAIN mirror \cup shown |->
                      IF i \in DOMAIN mirror THEN mirror[i] ELSE "external"]
    /\ seeder' = Started
    /\ UNCHANGED <<stored, mark, passes, seedFaults, jumped>>

SeedInit ==
    /\ stored = {} /\ mark = [ran |-> 0, id |-> NONE] /\ seeder = Started
    /\ mirror = [i \in LocalIds |-> "local"]
    /\ passes = 0 /\ seedFaults = 0 /\ jumped = {}

SeedNext ==
    \/ StartSeed \/ leaderboard_recent \/ SeedRow \/ MarkRanAt \/ MarkId
    \/ SeedFails \/ seed_board

-----------------------------------------------------------------------------
(* Types of the seeder's state.                                            *)
SeedTypeOK ==
    /\ stored \subseteq FeedRows /\ jumped \subseteq FeedRows
    /\ seeder.pc \in {"rest", "fetch", "insert", "ran", "id", "board"}
    /\ \A i \in DOMAIN mirror : mirror[i] \in {"external", "local"}
    /\ passes \in 0..MaxPasses /\ seedFaults \in 0..MaxSeedFaults

(* "advance a durable watermark to the newest live (ran_at, id) so a       *)
(* resumed run continues from where it left off" (seed_live.py 9-13): every *)
(* sound row the next pass would not ask for again is stored.  The code    *)
(* breaks that in one way, which is the exception here: a pass that ends   *)
(* between the two writes of a checkpoint (134-136) leaves the new ran_at  *)
(* beside the old id, and the rows of that instant after the last one seen *)
(* and up to the old id are never asked for again.  No other row is lost,  *)
(* whatever fails later.                                                   *)
ResumeMissesNothing ==
    seeder.pc = "rest" =>
       \A r \in FeedRows :
          (r.kind = "sound" /\ ~tuple_gt(r, mark)) => r \in stored \cup jumped

(* Seeding: types, and a resumed run misses no row but those a half-written *)
(* watermark passed over.                                                  *)
SeedInv == SeedTypeOK /\ ResumeMissesNothing

-----------------------------------------------------------------------------
(* Unplanted challenges                                                    *)

CONSTANTS
    GraphNodes,    \* nodes of a colouring instance
    Colors,        \* k
    Order,         \* order of a Latin square
    MaxDraws,      \* max_attempts of the graph draw
    CorpusFiles    \* corpora a deployment may have: sets of files

ASSUME CorpusAssumption == {GraphNodes, Colors, Order, MaxDraws} \subseteq Nat \ {0}

VARIABLES
    mint,       \* [pc, edges, drawn]
    colored     \* the search's colours of nodes 0..i-1, and the next to try

corpusVars == <<mint, colored>>

Cells == (0..(Order - 1)) \X (0..(Order - 1))
Values == 0..(Order - 1)
NodePairs == {e \in (0..(GraphNodes - 1)) \X (0..(GraphNodes - 1)) : e[1] < e[2]}
EmptySearch == [colors |-> <<>>, next |-> 0]

(* A draw is accepted when the search finds a colouring; the colouring     *)
(* itself is dropped.  After max_attempts the empty graph is used.         *)
DrawGraph ==
    /\ mint.pc = "draw" /\ mint.drawn < MaxDraws
    /\ \E e \in SUBSET NodePairs :
         mint' = [mint EXCEPT !.pc = "search", !.edges = e, !.drawn = @ + 1]
    /\ colored' = EmptySearch

DrawsExhausted ==
    /\ mint.pc = "draw" /\ mint.drawn = MaxDraws
    /\ mint' = [mint EXCEPT !.pc = "coloring", !.edges = {}]
    /\ UNCHANGED colored

(* Node i takes the first colour no coloured neighbour has; a node without *)
(* one undoes its predecessor, which tries its next colour.                *)
clashes(i, c) ==
    \E u \in 0..(i - 1) : (<<u, i>> \in mint.edges \/ <<i, u>> \in mint.edges)
                          /\ colored.colors[u + 1] = c

find_coloring ==
    /\ mint.pc = "search"
    /\ LET i == Len(colored.colors)
       IN  IF i = GraphNodes
           THEN mint' = [mint EXCEPT !.pc = "coloring"] /\ UNCHANGED colored
           ELSE IF colored.next < Colors
           THEN /\ colored' = IF clashes(i, colored.next)
                              THEN [colored EXCEPT !.next = @ + 1]
                              ELSE [colors |-> Append(colored.colors, colored.next), next |-> 0]
                /\ UNCHANGED mint
           ELSE IF i > 0
           THEN /\ colored' = [colors |-> SubSeq(colored.colors, 1, i - 1),
                               next |-> colored.colors[i] + 1]
                /\ UNCHANGED mint
           ELSE mint' = [mint EXCEPT !.pc = "draw"] /\ UNCHANGED colored

(* Mutant: the at-most-one-colour clauses are left out.                    *)
gen_graph_coloring_loose(edges) ==
    LET var(v, c) == v * Colors + c + 1
        N == 0..(GraphNodes - 1)
        C == 0..(Colors - 1)
    IN  {{var(v, c) : c \in C} : v \in N}
        \cup {{-var(e[1], c), -var(e[2], c)} : e \in edges, c \in C}

(* One colour per vertex, adjacent vertices differ.                        *)
gen_graph_coloring(edges) ==
    LET var(v, c) == v * Colors + c + 1
        N == 0..(GraphNodes - 1)
        C == 0..(Colors - 1)
    IN  {{var(v, c) : c \in C} : v \in N}
        \cup {{-var(v, p[1]), -var(v, p[2])} : v \in N, p \in {q \in C \X C : q[1] < q[2]}}
        \cup {{-var(e[1], c), -var(e[2], c)} : e \in edges, c \in C}

(* A full square is the cyclic one with rows, columns and symbols          *)
(* permuted; some cells stay as clues.                                     *)
Perms == {p \in [Values -> Values] : \A a, b \in Values : p[a] = p[b] => a = b}
full_latin_square(rp, cp, sp) == [x \in Cells |-> sp[(rp[x[1]] + cp[x[2]]) % Order]]

gen_latin_square(grid, clues) ==
    LET var(r, c, v) == (r * Order + c) * Order + v + 1
    IN  {{var(x[1], x[2], v) : v \in Values} : x \in Cells}
        \cup {{-var(x[1], x[2], p[1]), -var(x[1], x[2], p[2])} :
                 x \in Cells, p \in {q \in Values \X Values : q[1] < q[2]}}
        \cup {{var(r, c, v) : c \in Values} : r \in Values, v \in Values}
        \cup {{var(r, c, v) : r \in Values} : c \in Values, v \in Values}
        \cup {{var(x[1], x[2], grid[x])} : x \in clues}

DrawSquare ==
    /\ mint.pc = "choose"
    /\ \E rp, cp, sp \in Perms, clues \in SUBSET Cells \ {{}} :
         mint' = [mint EXCEPT !.pc = "latin", !.edges =
                    [grid |-> full_latin_square(rp, cp, sp), clues |-> clues]]
    /\ UNCHANGED colored

(* The dispatcher: a corpus file when the corpus has one, else one of the  *)
(* two generators, by the parity of the keyed draw.                        *)
generate_real_instance(source) ==
    /\ mint.pc = "choose"
    /\ \/ /\ source = "corpus"
          /\ \E files \in CorpusFiles : \E f \in files :
               mint' = [mint EXCEPT !.pc = "file", !.edges = f]
       \/ /\ source = "combinatorial" \/ {} \in CorpusFiles
          /\ mint' = [mint EXCEPT !.pc = "draw"]
    /\ UNCHANGED colored

CorpusInit ==
    /\ mint = [pc |-> "choose", edges |-> {}, drawn |-> 0]
    /\ colored = EmptySearch

CorpusNext ==
    \/ DrawGraph \/ DrawsExhausted \/ find_coloring \/ DrawSquare
    \/ \E s \in {"corpus", "combinatorial"} : generate_real_instance(s)

-----------------------------------------------------------------------------
Satisfies(true, cnf) ==
    \A clause \in cnf : \E l \in clause : IF l > 0 THEN l \in true ELSE -l \notin true
Models(cnf, n) == {true \in SUBSET (1..n) : Satisfies(true, cnf)}

ProperColorings(edges) ==
    {col \in [0..(GraphNodes - 1) -> 0..(Colors - 1)] :
        \A e \in edges : col[e[1]] # col[e[2]]}
ColoringModel(col) ==
    {v * Colors + col[v] + 1 : v \in 0..(GraphNodes - 1)}

Completions(puzzle) ==
    {g \in [Cells -> Values] :
        /\ \A x, y \in Cells :
              (x # y /\ (x[1] = y[1] \/ x[2] = y[2])) => g[x] # g[y]
        /\ \A x \in puzzle.clues : g[x] = puzzle.grid[x]}
LatinModel(g) == {(x[1] * Order + x[2]) * Order + g[x] + 1 : x \in Cells}

(* Types of the generator's state.                                         *)
CorpusTypeOK ==
    /\ mint.pc \in {"choose", "draw", "search", "coloring", "latin", "file"}
    /\ mint.drawn \in 0..MaxDraws /\ Len(colored.colors) <= GraphNodes

(* A witness accepted by the generic verifier is a solution of the puzzle, *)
(* and there is one: the models of an emitted CNF are exactly the proper   *)
(* colourings of its graph, or the completions of its clues, and never     *)
(* none.  A graph is emitted only after the search ended with a colouring, *)
(* or is the empty one.                                                    *)
WitnessesAreSolutions ==
    /\ mint.pc = "coloring" =>
         LET proper == ProperColorings(mint.edges)
         IN  /\ proper # {}
             /\ Models(gen_graph_coloring(mint.edges), GraphNodes * Colors)
                  = {ColoringModel(col) : col \in proper}
    /\ mint.pc = "latin" =>
         LET complete == Completions(mint.edges)
         IN  /\ complete # {}
             /\ Models(gen_latin_square(mint.edges.grid, mint.edges.clues), Order * Order * Order)
                  = {LatinModel(g) : g \in complete}

(* Real instances: types, and models of a CNF are solutions of the puzzle. *)
CorpusInv == CorpusTypeOK /\ WitnessesAreSolutions
=============================================================================
