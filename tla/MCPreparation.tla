----------------------------- MODULE MCPreparation -----------------------------
(* A small memory map, and files and identities that differ from a good    *)
(* one in one respect each, at the boundaries of that map.                 *)
EXTENDS Preparation

MCProfile ==
  [min_decoded_size |-> 4, max_decoded_size |-> 11,
   sram_start |-> 32, sram_end |-> 40, app_flash_start |-> 16, app_flash_end |-> 24,
   models |-> {"JKPB", "JKINV", "JKA"}, max_supported_cells |-> 5,
   hardware_major |-> 0, firmware_major |-> 0]

MCEncodes ==
  [name \in {"JKPB", "JKINV", "JKA", "JKB1A24S"} |-> IF name = "JKPB" THEN 4 ELSE 0]

Model(name)    == [name |-> name, valid |-> name # "JKA", written |-> name]
Numbers(a, b)  == [numbers |-> <<a, b>>, letter |-> FALSE, prefixed |-> FALSE]
Lettered(v)    == [v EXCEPT !.letter = TRUE]
Spelled(model) == [model EXCEPT !.written = "with separators"]

Good ==
  [readable |-> TRUE, length |-> 8, padded |-> TRUE, declared |-> 8,
   stream |-> "whole", inflated |-> 8, version |-> Numbers(2, 7),
   models |-> <<Model("JKPB"), Model("JKPB"), Model("JKPB")>>,
   sp |-> 36, reset |-> 17, suffix |-> [timestamp |-> 0, hours |-> 0]]

Sized(n) == [Good EXCEPT !.declared = n, !.inflated = n]
Named(m) == [Good EXCEPT !.models = <<m, m, m>>]

Acceptable ==
  {Good, Sized(4), Sized(10)}
    \cup {[Good EXCEPT !.sp = 32], [Good EXCEPT !.reset = 23]}
    \cup {[Good EXCEPT !.version = v] : v \in {Numbers(2, 6), Numbers(2, 8),
                                              Numbers(3, 7), Lettered(Numbers(2, 7))}}
    \cup {Named(Spelled(Model("JKPB"))), Named(Model("JKINV"))}
    \cup {[Good EXCEPT !.suffix = [timestamp |-> 3, hours |-> 1]],
          [Good EXCEPT !.suffix = [timestamp |-> 3, hours |-> 1], !.version = Numbers(2, 8)]}

Unacceptable ==
  {[Good EXCEPT !.readable = FALSE], [Good EXCEPT !.padded = FALSE],
   [Good EXCEPT !.declared = 9], [Good EXCEPT !.declared = 12]}
    \cup {[Good EXCEPT !.length = n] : n \in {0, 6, 16}}
    \cup {[Sized(7) EXCEPT !.stream = s] : s \in {"followed", "cut", "broken"}}
    \cup {Sized(3), Sized(11), Sized(12), [Sized(13) EXCEPT !.declared = 8]}
    \cup {[Good EXCEPT !.version.numbers = <<2>>], [Good EXCEPT !.version.prefixed = TRUE]}
    \cup {Named(Model("JKB1A24S")), Named(Model("JKA")),
          [Good EXCEPT !.models[2] = Model("JKINV")]}
    \cup {[Good EXCEPT !.sp = n] : n \in {28, 34, 40}}
    \cup {[Good EXCEPT !.reset = n] : n \in {15, 18, 25}}
    \cup {[Good EXCEPT !.suffix = [timestamp |-> 3, hours |-> -1]],
          [Good EXCEPT !.suffix = [timestamp |-> 0, hours |-> 1]]}

MCFiles == Acceptable \cup Unacceptable

Battery ==
  [serial |-> 1, model |-> Model("JKPB"), max_cells |-> 4, hardware |-> 2,
   software |-> Numbers(2, 7)]

MCDevices ==
  {Battery, [Battery EXCEPT !.serial = 2], [Battery EXCEPT !.model = Spelled(@)], [Battery EXCEPT !.model = Model("JKINV")],
   [Battery EXCEPT !.model = Model("JKA")], [Battery EXCEPT !.model = Model("JKB1A24S")]}
    \cup {[Battery EXCEPT !.max_cells = n] : n \in {0, 3, 6}}
    \cup {[Battery EXCEPT !.hardware = n] : n \in {-1, 3}}
    \cup {[Battery EXCEPT !.software = Lettered(@)], [Battery EXCEPT !.software.prefixed = TRUE],
          [Battery EXCEPT !.software.numbers = <<>>]}
===============================================================================
