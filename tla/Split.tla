-------------------------------- MODULE Split --------------------------------
(***************************************************************************)
(* exercise/exercise.c, split(): the words of a line as an array of        *)
(* strings that ends with a null pointer.  The array is sized by counting  *)
(* separators before strtok() looks for words, so the two must agree.      *)
(*                                                                         *)
(* A position of line[] is its index plus one; last is 0 for a null        *)
(* last_delimiter; idx is the length of result.                            *)
(***************************************************************************)
EXTENDS Integers, Sequences, Words

CONSTANTS Chars,    \* what a line is made of
          Sep,      \* delimeter[0]
          Lines     \* lines split() may be given, each shorter than line[256]

ASSUME LinesAssumption == Lines \subseteq Seq(Chars)

VARIABLES pc, line,
          tmp, count, last, \* the counting loop
          pos,              \* where strtok() goes on
          result

splitVars == <<pc, line, tmp, count, last, pos, result>>

SplitInit == /\ pc = "scan" /\ line \in Lines
             /\ tmp = 1 /\ count = 0 /\ last = 0
             /\ pos = 1 /\ result = <<>>

idx == Len(result)

(* The first loop: count the separators and remember the last one.         *)
Scan == /\ pc = "scan" /\ tmp <= Len(line)
        /\ IF line[tmp] = Sep THEN count' = count + 1 /\ last' = tmp
                              ELSE UNCHANGED <<count, last>>
        /\ tmp' = tmp + 1
        /\ UNCHANGED <<pc, line, pos, result>>

(* last_delimiter < line + strlen(line) - 1: a null pointer is less than   *)
(* any, also for the empty line.                                           *)
TextAfterLast == last = 0 \/ last < Len(line)

(* Mutant: no place for the null pointer.                                  *)
AllocateTight == /\ pc = "scan" /\ tmp > Len(line)
                 /\ count' = count + (IF TextAfterLast THEN 1 ELSE 0)
                 /\ pc' \in {"tokens", "null"}
                 /\ UNCHANGED <<line, tmp, last, pos, result>>

(* count and malloc(), which may return null: then so does split().        *)
Allocate == /\ pc = "scan" /\ tmp > Len(line)
            /\ count' = count + (IF TextAfterLast THEN 1 ELSE 0) + 1
            /\ pc' \in {"tokens", "null"}
            /\ UNCHANGED <<line, tmp, last, pos, result>>

(* strtok() finds the word line[first .. end]: it skips separators, and    *)
(* stops at the next one or at the end of the line.                        *)
Token(first, end) == /\ pos <= first /\ first <= end
                     /\ \A i \in pos .. first - 1 : line[i] = Sep
                     /\ \A i \in first .. end : line[i] # Sep
                     /\ end < Len(line) => line[end + 1] = Sep

(* Mutant: the rest of the line is one word.                               *)
StoreRest == /\ pc = "tokens"
             /\ \E first \in 1 .. Len(line) :
                  /\ pos <= first /\ line[first] # Sep
                  /\ \A i \in pos .. first - 1 : line[i] = Sep
                  /\ result' = Append(result, SubSeq(line, first, Len(line)))
                  /\ pos' = Len(line) + 1
             /\ UNCHANGED <<pc, line, tmp, count, last>>

(* The loop's body, after assert(idx < count).                             *)
Store == /\ pc = "tokens" /\ idx < count
         /\ \E first, end \in 1 .. Len(line) :
              /\ Token(first, end)
              /\ result' = Append(result, SubSeq(line, first, end))
              /\ pos' = end + 1
         /\ UNCHANGED <<pc, line, tmp, count, last>>

NoToken == \A i \in pos .. Len(line) : line[i] = Sep

(* After the loop: the null pointer and return.                            *)
Finish == /\ pc = "tokens" /\ NoToken /\ idx = count - 1
          /\ pc' = "done"
          /\ UNCHANGED <<line, tmp, count, last, pos, result>>

(* assert(idx == count - 1) fails.                                         *)
Abort == /\ pc = "tokens" /\ NoToken /\ idx # count - 1
         /\ pc' = "aborted"
         /\ UNCHANGED <<line, tmp, count, last, pos, result>>

Returned == pc \in {"done", "null", "aborted"} /\ UNCHANGED splitVars

SplitNext == Scan \/ Allocate \/ Store \/ Finish \/ Abort \/ Returned

SplitSpec == SplitInit /\ [][SplitNext]_splitVars

-----------------------------------------------------------------------------
SplitTypeOK == /\ pc \in {"scan", "tokens", "done", "null", "aborted"}
               /\ line \in Lines
               /\ tmp \in 1 .. Len(line) + 1 /\ pos \in 1 .. Len(line) + 1
               /\ last \in 0 .. Len(line) /\ count \in 0 .. Len(line) + 2
               /\ result \in Seq(Seq(Chars))

(* However words and separators lie, every word strtok() finds has its     *)
(* place in the array and leaves one for the null pointer: assert(idx <    *)
(* count) never fails.                                                     *)
RoomForTerminator == pc = "tokens" => idx < count

(* What split() returns are the words of the line, in order, and it does   *)
(* return unless there is an empty word: counting separators and looking   *)
(* for words disagree, and assert(idx == count - 1) fails, for no others.  *)
ReturnsWords ==
  /\ pc = "done" => result = Words(line, Sep) /\ ~HasEmptyWord(line, Sep)
  /\ pc = "aborted" => HasEmptyWord(line, Sep)
=============================================================================
