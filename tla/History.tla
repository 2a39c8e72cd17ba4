------------------------------- MODULE History -------------------------------
(***************************************************************************)
(* The fix history, .agents/fix-history.jsonl: one line per kept fix,      *)
(* appended by the agent of the deployer and read by later recoveries and, *)
(* from another process, by the dashboard.                                 *)
(*                                                                         *)
(* The file is a sequence of units, in which entry i writes its number     *)
(* sizes[i] times and then a newline.  A line is valid JSON if it is one   *)
(* whole entry.  Every unit of one write may be seen by a reader, and be   *)
(* the last that gets to the disk, before the next.                        *)
(***************************************************************************)
EXTENDS Integers, FiniteSets, SequencesExt

CONSTANTS
    MaxAppends,     \* bound of the model: entries appended
    Sizes,          \* bound of the model: lengths of an entry, in units
    MaxLine,        \* longest line that the buffer of bufio.Scanner holds
    PromptLimit     \* examples in a prompt

VARIABLES
    file,       \* the file
    sizes,      \* per entry: its length
    status      \* per entry: "writing", "whole", or "cut" short

vars == <<file, sizes, status>>

Newline == 0
Latest == Len(status)
Writing == Latest > 0 /\ status[Latest] = "writing"
Written(i) == Cardinality({k \in 1..Len(file) : file[k] = i})

\* Fixes of two stages are recorded.
Stages == {"test", "build"}
StageOf(i) == IF i % 2 = 0 THEN "build" ELSE "test"

Init ==
    /\ file = <<>>
    /\ sizes = <<>>
    /\ status = <<>>

\* The file is open, the entry marshalled, and the write begins.  When one of
\* the three fails nothing is appended, and nobody is told.
BeginAppend ==
    /\ ~Writing
    /\ Latest < MaxAppends
    /\ \E n \in Sizes : sizes' = Append(sizes, n)
    /\ status' = Append(status, "writing")
    /\ file' = Append(file, Latest + 1)

WriteUnit ==
    /\ Writing
    /\ Written(Latest) < sizes[Latest]
    /\ file' = Append(file, Latest)
    /\ UNCHANGED <<sizes, status>>

WriteNewline ==
    /\ Writing
    /\ Written(Latest) = sizes[Latest]
    /\ file' = Append(file, Newline)
    /\ status' = [status EXCEPT ![Latest] = "whole"]
    /\ UNCHANGED sizes

\* The disk is full or the process killed: the next entry continues the line.
CutShort ==
    /\ Writing
    /\ status' = [status EXCEPT ![Latest] = "cut"]
    /\ UNCHANGED <<file, sizes>>

Next == BeginAppend \/ WriteUnit \/ WriteNewline \/ CutShort
-----------------------------------------------------------------------------
(* Reading.                                                                *)

\* The line unmarshals to an entry.
Valid(line) == line # <<>> /\ \A k \in 1..Len(line) : line[k] = line[1] /\ Len(line) = sizes[line[1]]

\* Mutation: a line that does not unmarshal ends the reading.
LineEndsStrict(scan, stages) ==
    [line |-> <<>>,
     items |-> IF Valid(scan.line) /\ StageOf(scan.line[1]) \in stages
                 THEN Append(scan.items, scan.line[1]) ELSE scan.items,
     on |-> Valid(scan.line)]

\* A line that does not unmarshal is skipped, and so is a fix of another stage.
LineEnds(scan, stages) ==
    [scan EXCEPT !.line = <<>>,
                 !.items = IF Valid(scan.line) /\ StageOf(scan.line[1]) \in stages
                             THEN Append(@, scan.line[1]) ELSE @]

\* scanner.Scan() for one unit more; it stops for good at a line that does not
\* fit its buffer.
ScanUnit(scan, unit, stages) ==
    IF ~scan.on THEN scan
    ELSE IF unit = Newline THEN LineEnds(scan, stages)
    ELSE IF Len(scan.line) = MaxLine THEN [scan EXCEPT !.on = FALSE, !.line = <<>>]
    ELSE [scan EXCEPT !.line = Append(@, unit)]

\* A reader of the fixes of some stages, after each number of units.
Scan(stages) ==
    LET after[n \in 0..Len(file)] ==
          IF n = 0 THEN [line |-> <<>>, items |-> <<>>, on |-> TRUE]
          ELSE ScanUnit(after[n - 1], file[n], stages)
    IN  after

\* The entries that it gets, oldest first; the end of the file ends the last
\* line, too.
ItemsOf(stages) == LineEnds(Scan(stages)[Len(file)], stages).items

\* The dashboard wants all of them.
Items == ItemsOf(Stages)

\* Mutation: shown as they are read.
PageUnreversed == Items

\* What the dashboard shows: the newest first.
Page == Reverse(Items)

\* Mutation: the first fixes of a stage are kept, not the last.
LastItemsFirst(items) == SubSeq(items, 1, IF Len(items) > PromptLimit THEN PromptLimit ELSE Len(items))

LastItems(items) ==
    SubSeq(items, IF Len(items) > PromptLimit THEN Len(items) - PromptLimit + 1 ELSE 1, Len(items))

\* The examples that buildHistoryPrompt gives the fixer of a stage.
Prompt(stage) == LastItems(ItemsOf({stage}))
-----------------------------------------------------------------------------
\* The line before entry i was cut short.
AfterCut(i) == i > 1 /\ status[i - 1] = "cut"

\* A line that is too long begins before entry i ends.
AfterLongLine(i) ==
    \E a \in 1..Len(file) :
      /\ a + MaxLine <= Len(file)
      /\ \A k \in a..(a + MaxLine) : file[k] # Newline
      /\ \E k \in (a + MaxLine)..Len(file) : file[k] = i

\* A fix that was recorded whole is read back, whatever happened to the
\* others: the only ones lost are the one right after an append that was cut
\* short, and those that come after a line too long for the scanner.
LossIsBounded ==
    \A i \in 1..Latest :
      status[i] = "whole" /\ ~AfterCut(i) /\ ~AfterLongLine(i)
        => \E k \in 1..Len(Items) : Items[k] = i

\* A recovery is shown the newest fix of its stage that can be read, as the
\* last of its few examples, and none of another stage.
PromptIsFresh ==
    \A stage \in Stages :
      /\ Len(Prompt(stage)) <= PromptLimit
      /\ \A k \in 1..Len(Prompt(stage)) : StageOf(Prompt(stage)[k]) = stage
      /\ \A i \in 1..Latest :
           StageOf(i) = stage /\ status[i] = "whole" /\ ~AfterCut(i) /\ ~AfterLongLine(i)
             => Prompt(stage) # <<>> /\ Prompt(stage)[Len(Prompt(stage))] >= i
=============================================================================
