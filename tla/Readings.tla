------------------------------ MODULE Readings ------------------------------
(***************************************************************************)
(* What the scripts read out of texts, traces and tables: the code of a    *)
(* completion (in Extraction), the examples of a prompt (bestofn.py), the  *)
(* busy and idle time of a GPU trace (nsys_round.py) and the paired test   *)
(* of two result files (cmp_paired.py).  A behaviour is one input, of one  *)
(* of the four kinds, and the function applied to it.                      *)
(***************************************************************************)
EXTENDS Extraction, Combinatorics

CONSTANTS MaxLines,    \* bound: lines of a text
          MaxOps,      \* bound: operations of a trace
          MaxTime,     \* bound: start and duration of an operation
          NResults     \* bound: tasks of a result file

ASSUME BoundsAssumption ==
    MaxLines \in Nat /\ MaxOps \in Nat \ {0} /\ MaxTime \in Nat \ {0} /\ NResults \in Nat

VARIABLES kind, input, output, stage

readVars == <<kind, input, output, stage>>

SeqsUpTo(S, n) == UNION {[1..m -> S] : m \in 0..n}

Completions == SeqsUpTo(TextLine, MaxLines)

------------------------------------------------------------------------------
(* bestofn.py: a prompt as its lines: a call after ">>>", one that does    *)
(* not parse, a literal (closing quotes after it are dropped), any other   *)
(* text, those quotes alone included, a blank.                             *)

Calls == {"call", "badcall"}
Prompts == SeqsUpTo(Calls \cup {"literal", "text", "blank"}, MaxLines)

(* Mutant: the line after the prompt, whatever it is. *)
NextLine(p, i) == i + 1

(* j: the first line after i that is not blank, or past the end. *)
NextNonBlank(p, i) == Min({j \in (i + 1)..Len(p) : p[j] # "blank"} \cup {Len(p) + 1})

(* loop[i]: the pairs that extract_raw_examples finds from line i on. *)
extract_raw_examples(p) ==
    LET loop[i \in 1..(Len(p) + 2)] ==
            IF i > Len(p) THEN <<>>
            ELSE LET j == NextNonBlank(p, i) IN
                 IF p[i] \in Calls /\ j <= Len(p) /\ p[j] \notin Calls
                 THEN <<<<i, j>>>> \o loop[j + 1]
                 ELSE loop[i + 1]
    IN loop[1]

parse_examples(p) ==
    LET raw == extract_raw_examples(p)
        usable[n \in 0..Len(raw)] ==
            IF n = 0 THEN <<>>
            ELSE IF p[raw[n][1]] = "call" /\ p[raw[n][2]] = "literal"
                 THEN Append(usable[n - 1], raw[n])
                 ELSE usable[n - 1]
    IN usable[Len(raw)]

------------------------------------------------------------------------------
(* nsys_round.py: the operations of a trace as <<start, end>> *)

Operation == {<<s, s + d>> : s \in 0..MaxTime, d \in 0..MaxTime}
Traces == SeqsUpTo(Operation, MaxOps) \ {<<>>}

Earlier(x, y) == x[1] < y[1] \/ (x[1] = y[1] /\ x[2] < y[2])

(* ivals.sort() *)
Sorted(ivals) ==
    LET n == Len(ivals) IN
    CHOOSE s \in [1..n -> Range(ivals)] :
        /\ \E p \in Bijection(1..n, 1..n) : s = [i \in 1..n |-> ivals[p[i]]]
        /\ \A i, j \in 1..n : i < j => ~Earlier(s[j], s[i])

(* Mutant: the end of a block is that of its last operation. *)
Last2(x, y) == y

Max2(x, y) == IF x > y THEN x ELSE y

(* The next operation in order of start belongs to the last block, or opens one. *)
Merge(m, iv) ==
    LET last == m[Len(m)] IN
    IF iv[1] <= last[2] THEN [m EXCEPT ![Len(m)] = <<last[1], Max2(last[2], iv[2])>>]
    ELSE Append(m, iv)

Merged(ivals) ==
    LET s == Sorted(ivals)
        merged[n \in 1..Len(s)] ==
            IF n = 1 THEN <<s[1]>> ELSE Merge(merged[n - 1], s[n])
    IN merged[Len(s)]

analyse(ivals) ==
    LET m == Merged(ivals)
        window == m[Len(m)][2] - m[1][1]
        busy == SumFunction([i \in DOMAIN m |-> m[i][2] - m[i][1]])
    IN [window |-> window, busy |-> busy, idle |-> window - busy,
        gaps |-> [i \in 1..(Len(m) - 1) |-> m[i + 1][1] - m[i][2]]]

------------------------------------------------------------------------------
(* cmp_paired.py: a file as its lines, a task and its passed_at (2 stands  *)
(* for any later attempt, and for none)                                    *)

Line == [task_id : 1..NResults, passed_at : {1, 2}]
Files == {f \in SeqsUpTo(Line, NResults) :
             \A i, j \in DOMAIN f : i < j => f[i].task_id < f[j].task_id}

(* stale: a line of an earlier run, which a later one may repeat. *)
Pairs == {[a |-> stale \o f, b |-> g] : stale \in SeqsUpTo(Line, 1), f \in Files, g \in Files}

(* Mutant: the first line of a task wins. *)
FirstLine(file, t) == file[Min({i \in DOMAIN file : file[i].task_id = t})]

LastLine(file, t) == file[Max({i \in DOMAIN file : file[i].task_id = t})]

load_jsonl(file) == [t \in {file[i].task_id : i \in DOMAIN file} |-> LastLine(file, t)]

humaneval_pass1(r) == r.passed_at = 1

(* p = numerator / 2^n *)
mcnemar_exact(b, c) ==
    LET n == b + c
        k == IF b < c THEN b ELSE c
        tail == SumFunction([i \in 0..k |-> choose(n, i)])
    IN IF n = 0 THEN <<1, 1>> ELSE <<IF 2 * tail < 2^n THEN 2 * tail ELSE 2^n, 2^n>>

report(fileA, fileB) ==
    LET a == load_jsonl(fileA)
        b == load_jsonl(fileB)
        common == DOMAIN a \cap DOMAIN b
        bWins == {t \in common : humaneval_pass1(a[t]) /\ ~humaneval_pass1(b[t])}
        cWins == {t \in common : ~humaneval_pass1(a[t]) /\ humaneval_pass1(b[t])}
        p == mcnemar_exact(Cardinality(bWins), Cardinality(cWins))
    IN [common |-> common, b |-> bWins, c |-> cWins, p |-> p,
        significant |-> 20 * p[1] < p[2]]

------------------------------------------------------------------------------
ReadInit ==
    /\ \/ kind = "completion" /\ input \in [text : Completions, legacy : BOOLEAN]
       \/ kind = "prompt" /\ input \in Prompts
       \/ kind = "trace" /\ input \in Traces
       \/ kind = "pair" /\ input \in Pairs
    /\ output = {} /\ stage = "given"

Reads(k) ==
    /\ kind = k /\ stage = "given"
    /\ stage' = "read"
    /\ UNCHANGED <<kind, input>>

ReadCompletion ==
    /\ Reads("completion")
    /\ output' = [code |-> extract_code(input.text, input.legacy),
                  unclosed |-> fence_unclosed(input.text)]

ReadPrompt == Reads("prompt") /\ output' = parse_examples(input)

ReadTrace == Reads("trace") /\ output' = analyse(input)

ReadPair == Reads("pair") /\ output' = report(input.a, input.b)

ReadNext == ReadCompletion \/ ReadPrompt \/ ReadTrace \/ ReadPair

ReadSpec == ReadInit /\ [][ReadNext]_readVars

Read(k) == kind = k /\ stage = "read"

------------------------------------------------------------------------------
(* What a completion is scored by is its first fenced block, and it is     *)
(* reported unclosed only if that block is, whatever follows it, provided  *)
(* that the first fence is a bare one or says "python".                    *)
FirstBlockIsScored ==
    Read("completion") /\ OpensPlainly(input.text) =>
        IsFirstBlock(output.code, output.unclosed, input.text, input.legacy)

(* A prompt's usable examples are, in order, the calls that parse whose    *)
(* next line that is not blank is a literal: none is skipped because of    *)
(* its neighbours, none takes another call for its result.                 *)
ExamplesAreCallAndResult ==
    Read("prompt") =>
        LET usable == {ij \in (DOMAIN input) \X (DOMAIN input) :
                /\ input[ij[1]] = "call" /\ input[ij[2]] = "literal"
                /\ ij[1] < ij[2]
                /\ \A k \in (ij[1] + 1)..(ij[2] - 1) : input[k] = "blank"}
        IN /\ output \in Seq(usable) /\ usable \subseteq Range(output)
           /\ \A m, n \in DOMAIN output : m < n => output[m][1] < output[n][1]

(* However operations of several streams overlap, nest or touch, busy is   *)
(* the time during which some operation ran and the gaps are the rest of   *)
(* the window: none is empty and together they are the idle time.          *)
BusyIsTheUnion ==
    Read("trace") =>
        LET ticks == {t \in 0..(2 * MaxTime) : \E i \in DOMAIN input :
                          input[i][1] <= t /\ t < input[i][2]}
        IN /\ output.busy = Cardinality(ticks)
           /\ output.idle = SumFunction(output.gaps)
           /\ \A i \in DOMAIN output.gaps : output.gaps[i] > 0
           /\ output.window = Max({input[i][2] : i \in DOMAIN input})
                              - Min({input[i][1] : i \in DOMAIN input})

(* p is the share, of all the ways to swap two files' results task by      *)
(* task, of those that come out at least as lopsided as the files are: by  *)
(* the last line of each task, over the tasks that both files have.        *)
IsShareOfSwaps(p, fileA, fileB) ==
    LET Passed(f, t) == f[Max({i \in DOMAIN f : f[i].task_id = t})].passed_at = 1
        Tasks(f) == {f[i].task_id : i \in DOMAIN f}
        both == Tasks(fileA) \cap Tasks(fileB)
        Passes(f, g, S) == Cardinality({t \in both : Passed(IF t \in S THEN g ELSE f, t)})
        Diff(S) == Passes(fileA, fileB, S) - Passes(fileB, fileA, S)
        Abs(n) == IF n < 0 THEN -n ELSE n
        extreme == {S \in SUBSET both : Abs(Diff(S)) >= Abs(Diff({}))}
    IN p[1] * 2^Cardinality(both) = Cardinality(extreme) * p[2]

(* The p-value that is reported for two files is that of the exact paired  *)
(* test, whatever lines an earlier run left in one of them and whatever    *)
(* tasks the other lacks.                                                  *)
PValueIsExact == Read("pair") => IsShareOfSwaps(output.p, input.a, input.b)
==============================================================================
