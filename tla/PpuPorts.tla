------------------------------- MODULE PpuPorts -------------------------------
(***************************************************************************)
(* The PPU's registers as the CPU bus sees them (cpu_read, cpu_write,      *)
(* write_oam_byte and raise_vblank, src/src/ppu.cpp): the vblank flag that *)
(* a status read clears, the latch that write-only registers read back,    *)
(* and the sprite memory with its address and its write counter (O-10,     *)
(* O-15, O-16).  Pure operators on the PPU record u; Cpu drives them.      *)
(*                                                                         *)
(* The data port and the scroll registers are modelled in VramAddress, the *)
(* catch-up before an access in LineRenderer, the NMI of a $2000 write in  *)
(* FrameLoop: here these accesses only drive the latch.                    *)
(***************************************************************************)
EXTENDS CpuAlu

CONSTANTS
  OamSize,      \* bytes of sprite memory (256)
  OamHead       \* bytes at its head that the write counter addresses (8)

ASSUME OamAssumption == OamHead \in 1..OamSize /\ OamSize \in 1..Size /\ OamSize % OamHead = 0

OamIndex == 0..(OamSize - 1)

PpuPowerOn ==
  [vblank   |-> FALSE,               \* bit 7 of reg_status
   latch    |-> 0,                   \* io_latch
   oamAddr  |-> 0,                   \* reg_oam_addr
   oamCount |-> 0,                   \* oam_spl
   oam      |-> [k \in OamIndex |-> 0]]

\* raise_vblank()
RaiseVblank(u) == [u EXCEPT !.vblank = TRUE, !.oamAddr = 0, !.oamCount = 0]

\* snapshot_render(), as far as the flag goes.
ClearVblank(u) == [u EXCEPT !.vblank = FALSE]

-----------------------------------------------------------------------------
(* cpu_read(): the value and the state after it.  One status bit stands    *)
(* for bits 7 to 5.                                                        *)

StatusByte(u) == (IF u.vblank THEN Top ELSE 0) + (u.latch % Top)

PortValue(u, reg, data) ==
  CASE reg = 2 -> StatusByte(u) [] reg = 7 -> data [] OTHER -> u.latch

PortRead(u, reg, data) ==
  CASE reg = 2 -> [u EXCEPT !.vblank = FALSE, !.latch = StatusByte(u)]
    [] reg = 7 -> [u EXCEPT !.latch = data]
    [] OTHER -> u

-----------------------------------------------------------------------------
(* cpu_write()                                                             *)

\* A slip: once past its head, sprite memory takes every byte.
WriteOamEverywhere(u, val) ==
  [u EXCEPT
     !.latch = val,
     !.oam[IF u.oamCount < OamHead THEN u.oamCount ELSE u.oamAddr] = val,
     !.oamAddr = (u.oamAddr + 1) % OamSize,
     !.oamCount = (u.oamCount + 1) % OamSize]

\* write_oam_byte(): the first bytes go where the counter says; later ones where the
\* address says, but never into the head.
WriteOam(u, val) ==
  LET moved == [u EXCEPT !.latch = val, !.oamAddr = (u.oamAddr + 1) % OamSize,
                         !.oamCount = (u.oamCount + 1) % OamSize]
  IN  IF u.oamCount < OamHead THEN [moved EXCEPT !.oam[u.oamCount] = val]
      ELSE IF u.oamAddr >= OamHead THEN [moved EXCEPT !.oam[u.oamAddr] = val]
      ELSE moved

PortWrite(u, reg, val) ==
  CASE reg = 3 -> [u EXCEPT !.latch = val, !.oamAddr = val % OamSize, !.oamCount = val % OamHead]
    [] reg = 4 -> WriteOam(u, val)
    [] OTHER -> [u EXCEPT !.latch = val]
=============================================================================
