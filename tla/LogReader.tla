----------------------------- MODULE LogReader ------------------------------
(***************************************************************************)
(* ReadLog: a client calls it again and again with the cursor of the last  *)
(* answer, while the job writes, finishes and loses its log.  The row, the *)
(* file and each line are read at moments of their own.                    *)
(***************************************************************************)
EXTENDS LogState

ReadRow ==
    /\ reader.at = "idle" /\ setup.followed # NoJob
    /\ job[setup.followed].path
    /\ reader' = [Quiet EXCEPT !.at = "open",
                               !.terminal = job[setup.followed].state = "over"]
    /\ UNCHANGED <<setup, loopVars, actor, fileVars, cursor, events>>

\* Mutant: any cursor is the beginning of a line.
OpenAnywhere ==
    /\ reader.at = "open"
    /\ reader' = IF ~job[setup.followed].file THEN Quiet
                 ELSE [reader EXCEPT !.at = "read", !.size = Len(log), !.pos = cursor]
    /\ UNCHANGED <<setup, loopVars, actor, fileVars, cursor, events>>

\* A log that is gone is no error; the size is that of now.
OpenLog ==
    /\ reader.at = "open"
    /\ reader' = IF ~job[setup.followed].file THEN Quiet
                 ELSE [reader EXCEPT !.at = "read", !.size = Len(log), !.pos = cursor,
                         !.skipping = cursor > 0 /\ log[cursor] # Newline]
    /\ UNCHANGED <<setup, loopVars, actor, fileVars, cursor, events>>

-----------------------------------------------------------------------------
\* readLogLine: what it consumes at pos, and whether it meets the end of a line,
\* the end of the file, or has read buffer after buffer until it had remaining.
NextLine(pos, remaining) ==
    LET ends == {i \in pos + 1 .. Len(log) : log[i] = Newline}
        found == ends # {}
        body == IF found THEN (CHOOSE i \in ends : \A k \in ends : i <= k) - 1 - pos
                ELSE Len(log) - pos
        most == Buffer * ((remaining + Buffer - 1) \div Buffer)
    IN IF most <= body THEN [consumed |-> most, met |-> "full"]
       ELSE IF found THEN [consumed |-> body + 1, met |-> "line"]
       ELSE [consumed |-> body, met |-> "eof"]

Remaining == Window - (reader.pos - cursor)
Here == NextLine(reader.pos, Remaining)
After == reader.pos + Here.consumed

\* The loop of ReadLog goes on.
Reading == reader.at = "read" /\ Len(reader.lines) < MaxLines /\ reader.pos - cursor < Window

\* The call leaves the loop, or goes on in it, with its cursor at pos.
Done(pos, lines) == reader' = [reader EXCEPT !.at = "done", !.pos = pos, !.lines = lines]
Continue(pos, lines) ==
    reader' = [reader EXCEPT !.pos = pos, !.lines = lines, !.skipping = FALSE]

Deliver == Append(reader.lines, <<reader.pos, After>>)

SkipRest ==
    /\ Here.consumed > 0 /\ reader.skipping
    /\ IF Here.met = "line" THEN Continue(After, reader.lines) ELSE Done(After, reader.lines)

\* Mutant: a line that just fits does not.
FitsLess == Here.consumed < Remaining

Fits == Here.consumed <= Remaining

WholeLine ==
    /\ ~reader.skipping /\ Here.met = "line"
    /\ IF Fits THEN Continue(After, Deliver) ELSE Done(After, reader.lines)

\* A terminal log ends without a newline.
AtEnd == reader.terminal /\ After = reader.size

\* Mutant: the cursor stays in front of what is too long, of a finished job as well.
PassesNothing == FALSE

\* A finished job writes no more, so what is too long can be passed piece by piece.
Passes == reader.terminal /\ Here.met = "full"

\* The first piece of the line still fits, so that there is some of it.
Kept == Buffer <= Remaining \/ Fits

PartOfLine ==
    /\ Here.consumed > 0 /\ ~reader.skipping /\ Here.met # "line"
    /\ Done(IF (AtEnd /\ Kept) \/ Passes THEN After ELSE reader.pos,
            IF AtEnd /\ Fits THEN Deliver ELSE reader.lines)

ReadLine ==
    /\ Reading
    /\ \/ SkipRest
       \/ WholeLine
       \/ PartOfLine
       \/ Here.consumed = 0 /\ Done(reader.pos, reader.lines)
    /\ UNCHANGED <<setup, loopVars, actor, fileVars, cursor, events>>

\* The client gets the lines and the cursor.
Answer ==
    /\ reader.at \in {"read", "done"} /\ ~Reading
    /\ cursor' = reader.pos
    /\ reader' = Quiet
    /\ UNCHANGED <<setup, loopVars, actor, fileVars, events>>

\* The call fails, or serve ends under it; the client has its cursor still.
ReadFails ==
    /\ Event("read")
    /\ reader.at # "idle"
    /\ reader' = Quiet
    /\ UNCHANGED <<setup, loopVars, actor, fileVars, cursor>>
=============================================================================
