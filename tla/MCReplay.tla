------------------------------- MODULE MCReplay -------------------------------
(* Small instances of Replay for TLC. *)
EXTENDS Replay

PortKeys == {"fourscore", "port0", "port1", "port2"}
NoRom == <<>>

\* Every kind of line, right and wrong.
AllLines ==
  {Blank, Broken, Magic(TRUE), Magic(FALSE), DataMark,
   Field("fourscore", 0, TRUE), Field("fourscore", 1, TRUE),
   Field("port0", 1, TRUE), Field("port1", 0, TRUE), Field("port1", 1, TRUE),
   Field("port2", 3, TRUE), Field("port2", 1, FALSE),
   Record(<<1>>, TRUE), Record(<<2, 3>>, TRUE), Record(<<1>>, FALSE),
   Record(<<0, 1, 2, 3, 0>>, TRUE), Record(<<3, 2, 0, 0, 1>>, TRUE),
   Record(<<4, 0, 0, 0, 0>>, TRUE)}
=============================================================================
