------------------------------ MODULE MCPacker -------------------------------
(***************************************************************************)
(* Bytes of two bits, so words of eight: the length of 128 bytes does not  *)
(* fit in one.  Sectors of two blocks, a header of two sectors, and the    *)
(* files around the sizes that matter to a word, a block and a sector, to  *)
(* the padding of a hash (56 and 64 bytes) and to its count (128); kernels *)
(* with every value of setup_sects.  All sixteen rounds of Blowfish.  The  *)
(* loader's scrambler is fresh, or as another image left it.               *)
(***************************************************************************)
EXTENDS Packer

MCK == <<OfNat(153), OfNat(161), OfNat(220), OfNat(214)>>
MCHInit == <<OfNat(1), OfNat(137), OfNat(254), OfNat(118), OfNat(240)>>
MCOrigP == [i \in 0 .. 17 |-> OfNat(36 + 73 * i)]
MCOrigS == [k \in 0 .. 3 |-> [b \in 0 .. 3 |-> OfNat(209 + 49 * k + 152 * b)]]
MCXorKey == <<{0}, {1}, {0, 1}>>
MCBlowfishKey == <<{1}, {}, {0}, {0, 1}, {0}>>

MCMagic == <<{0, 1}, {1}>>
Text(n) == [k \in 1 .. n |-> CASE k % 3 = 0 -> {0} [] k % 7 = 0 -> {1} [] OTHER -> {}]
KernelFile(n, setup) ==
  [k \in 1 .. n |-> CASE k = SetupAt + 1 -> OfNat(setup)
                      [] k \in MagicAt + 1 .. MagicAt + Len(MCMagic) -> MCMagic[k - MagicAt]
                      [] OTHER -> Text(n)[k]]
MCInputs ==
  {Text(n) : n \in 0 .. 18 \cup {55, 56, 63, 64, 119, 120, 127, 128}}
    \cup {KernelFile(n, setup) : n \in {20, 32, 40, 47, 48, 49, 80}, setup \in 0 .. 3}
MCEarlier == {[key |-> 0, b |-> {}], [key |-> 1, b |-> {0, 1}]}
MCRests == {Filled(Sector, {}), Filled(Sector, {0, 1})}
=============================================================================
