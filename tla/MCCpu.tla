--------------------------------- MODULE MCCpu ---------------------------------
(* Small instances of Cpu: kinds of programs, each with few instructions and  *)
(* the operands that make its cases happen.                                   *)
EXTENDS Cpu

\* Sums, differences, shifts and branches on their flags.
Calculating ==
  [ops |-> {"ADC", "SBC", "SLO", "RRA", "ISB", "ARR", "BCS", "JMP"}, modes |-> {"imm", "zp"},
   bases |-> {}, operands |-> {1, 127, 252}, x |-> {170}, y |-> {0},
   code |-> {49152, 49154}, targets |-> {49152}, vector |-> 49152, room |-> 0]

\* Indexes of 8 onto $2002 from an odd page, onto $4014, and unmapped addresses.
Accessing ==
  [ops |-> {"LDA", "STY", "ASL", "AHX", "JMP", "vblank"},
   modes |-> {"abs", "absX", "absY", "indX", "indY"},
   bases |-> {8186, 16396, 20480}, operands |-> {20}, x |-> {8}, y |-> {8},
   code |-> {49152, 49154, 49155}, targets |-> {49152}, vector |-> 49152, room |-> 0]

\* $2003, $2004 and $4014, with RAM pages and the stack page.
Copying ==
  [ops |-> {"STX", "JMP", "vblank"}, modes |-> {"abs"},
   bases |-> {8195, 8196, 16404}, operands |-> {0}, x |-> {1, 5}, y |-> {0},
   code |-> {49152, 49155}, targets |-> {49152}, vector |-> 49152, room |-> 0]

\* Calls and interrupts inside each other, on both sides of a page boundary.
Calling ==
  [ops |-> {"JSR", "RTS", "BRK", "RTI", "interrupt", "CLI", "JMP"}, modes |-> {},
   bases |-> {}, operands |-> {}, x |-> {0}, y |-> {0},
   code |-> {49406, 49407, 49409}, targets |-> {49406}, vector |-> 49407, room |-> 7]

\* The stack pointer passes through 0.
Wrapping ==
  [ops |-> {"TXS", "JSR", "RTS", "BRK", "RTI", "JMP"}, modes |-> {},
   bases |-> {}, operands |-> {}, x |-> {0}, y |-> {0},
   code |-> {49406, 49407, 49409}, targets |-> {49406}, vector |-> 49407, room |-> 5]

\* Flags pulled from any byte.
Keeping ==
  [ops |-> {"PHA", "PHP", "PLA", "PLP", "JMP"}, modes |-> {},
   bases |-> {}, operands |-> {}, x |-> {0}, y |-> {0},
   code |-> {49406, 49407}, targets |-> {49406}, vector |-> 49407, room |-> 3]

\* Handlers that keep A on the stack.
Handling ==
  [ops |-> {"RTI", "interrupt", "PHA", "PLA", "JMP"}, modes |-> {},
   bases |-> {}, operands |-> {}, x |-> {0}, y |-> {0},
   code |-> {49406, 49407}, targets |-> {49406}, vector |-> 49407, room |-> 4]

EachProgram == {Calculating, Accessing, Copying, Calling, Wrapping, Keeping, Handling}
OpenBusReads == {Accessing}
=============================================================================
