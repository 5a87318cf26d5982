------------------------------ MODULE MCInt13 ------------------------------
(* INT 13h as a whole: each behaviour is of the diskettes (BiosFloppy) or of *)
(* the disks (BiosDisk); the other half stays as it was at the start.       *)
EXTENDS MCBiosDisk

CONSTANTS MotorTicks, AnswerTicks, HostStalls

VARIABLES half, fdc, irr, dma, disk, types, bda, fcpu, fcall, fret, fhist
diskette == <<fdc, irr, dma, disk, types, bda, fcpu, fcall, fret, fhist>>

NoDisk == [in |-> FALSE, wp |-> FALSE, spt |-> 0, cyls |-> 0]
FdDisks == {NoDisk} \cup [in : {TRUE}, wp : BOOLEAN, spt : {2}, cyls : {2}]
FdTypes == {<<4, 2>>, <<4, 0>>}
Fd(fn, drive, track, head, sector, num, es, bx) ==
  [fn |-> fn, drive |-> drive, track |-> track, head |-> head, sector |-> sector,
   num |-> num, es |-> es, bx |-> bx]
FdCalls == {
  Fd(0, 0, 0, 0, 1, 1, 0, 0), Fd(1, 0, 0, 0, 1, 1, 0, 0),
  Fd(2, 0, 0, 0, 1, 2, 256, 0),       \* a track
  Fd(2, 0, 0, 1, 2, 2, 8191, 16),     \* into the next cylinder, with a carry
  Fd(2, 1, 1, 0, 1, 1, 4096, 65024),  \* up to the end of a page
  Fd(2, 0, 0, 0, 3, 1, 256, 0),       \* no such sector
  Fd(2, 0, 2, 0, 1, 1, 256, 0),       \* no such track
  Fd(2, 0, 0, 0, 1, 1, 8176, 0),      \* over the end of a page
  Fd(3, 0, 1, 1, 1, 1, 4095, 65535), Fd(3, 1, 0, 0, 3, 1, 256, 0),
  Fd(4, 1, 1, 0, 1, 1, 0, 0),
  Fd(5, 0, 1, 1, 1, 2, 4095, 20), Fd(5, 3, 0, 0, 1, 2, 256, 0),
  Fd(8, 0, 0, 0, 1, 1, 0, 0), Fd(21, 1, 0, 0, 1, 1, 0, 0), Fd(22, 0, 0, 0, 1, 1, 0, 0),
  Fd(23, 0, 0, 0, 1, 4, 0, 0), Fd(24, 0, 79, 0, 9, 1, 0, 0), Fd(24, 1, 79, 0, 9, 1, 0, 0)}

F == INSTANCE BiosFloppy WITH Calls <- FdCalls, DriveTypes <- FdTypes, Disks <- FdDisks,
                              cpu <- fcpu, call <- fcall, ret <- fret, hist <- fhist

MCInit ==
  /\ Init /\ F!Init /\ half \in {"diskette", "disk"}
  /\ IF half = "disk"
     THEN types = <<4, 2>> /\ disk = [d \in {0, 1} |-> NoDisk] /\ fdc.enable
     ELSE mach = CHOOSE m \in MCMachines : TRUE
DiskSteps == half = "disk" /\ Steps /\ UNCHANGED <<half, diskette>>
DiskMore == half = "disk" /\ ((\E k \in MCCalls : Call(k)) \/ GivesUp) /\ UNCHANGED <<half, diskette>>
Diskettes == half = "diskette" /\ F!Next /\ UNCHANGED <<half, vars>>
MCSpec == MCInit /\ [][DiskSteps \/ DiskMore \/ Diskettes]_<<half, vars, diskette>>
          /\ WF_vars(DiskSteps) /\ WF_diskette(Diskettes)

\* A read, write or format of a diskette that succeeds moved the sectors asked
\* for, to or from the caller's buffer.
DataWhereAsked == F!DataWhereAsked

\* The completion the diskette driver takes is the one of its command, and it
\* answers that the drive is not ready only for a command the drive cannot begin,
\* a host too slow, or the tick that stops the motor at the wrong time.
CompletionsMatched == F!ResultsAwaited /\ F!TimeOutMeansNoAnswer

\* Between calls the diskette controller is idle and its line down.
Quiet == F!Quiet

\* Every call of INT 13h comes back, and every boot ends in a loaded system or
\* where the BIOS says it stops.
Int13Ends == F!CallsEnd /\ CallsEnd
=============================================================================
