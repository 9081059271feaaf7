---------------------------- MODULE MCEntryLoad ----------------------------
(* Instances of EntryLoad for TLC: windows, files and raw data put         *)
(* together from whole, cut-off and corrupt entry points.                  *)
EXTENDS EntryLoad, SequencesExt

(* A 2.x entry point of n >= 31 bytes, and a 3.x one of n >= 24. *)
Entry2(n, address, length) ==
  LET blank  == Write(Zeros(n), 0, SMBIOS2_ANCHOR)
      fixed  == Write(Write(blank, 5, <<n, 2, 8>>), 16,
                      SMBIOS2_INTERMEDIATE_ANCHOR)
      fields == Write(Write(fixed, 22, WriteLE(length, 2)), 24,
                      WriteLE(address, 4))
  IN  SetChecksum(SetChecksum(fields, 16, 31, 21), 0, n, 4)

Entry3(n, address, length) ==
  LET blank  == Write(Write(Zeros(n), 0, SMBIOS3_ANCHOR), 6, <<n, 3, 4>>)
      fields == Write(Write(blank, 12, WriteLE(length, 4)), 16,
                      WriteLE(address, 8))
  IN  SetChecksum(fields, 0, n, 5)

Flip(d, k) == Write(d, k, <<(ByteAt(d, k) + 1) % 256>>)

Good == {Entry2(31, 64, 8), Entry3(24, 64, 8)}

(* No address, no length, and an address beyond every window. *)
Odd == {Entry2(31, 0, 8), Entry3(24, 64, 0),
        Write(Entry3(24, 0, 8), 22, <<1>>)}

(* A wrong checksum, intermediate checksum, declared length (the next piece *)
(* may or may not make up for it) or anchor.                               *)
Bad == {Flip(Entry2(31, 64, 8), 2), Flip(Entry2(31, 64, 8), 23),
        Write(Entry3(24, 64, 8), 6, <<40>>),
        Write(Entry2(31, 64, 8), 5, <<30>>),
        Flip(Entry2(31, 64, 8), 17)}

Paragraph(d) == d \o Zeros((16 - (Len(d) % 16)) % 16)

Pieces ==
  {Zeros(16)} \cup {Paragraph(e) : e \in Bad \cup {Entry2(33, 64, 8)}}

(* Up to two pieces, then one more, whole or cut off by a byte. *)
Windows(n) ==
  {FlattenSeq(s) \o SubSeq(last, 1, Len(last) - cut) :
     s \in UNION {[1 .. k -> Pieces] : k \in 0 .. n},
     last \in Good \cup {Entry3(26, 64, 8)}, cut \in {0, 1}}

Tails == {0, 1, 5, 12, 40}

Files ==
  {e \o Zeros(n) :
     e \in Bad \cup Odd
            \cup {Entry2(31, a, l) : a \in {30, 31, 35}, l \in {1, 5, 8}}
            \cup {Entry3(24, a, l) : a \in {23, 24, 28, 36}, l \in {1, 12}}
            \cup {Entry3(26, 30, 4), << >>, <<95, 83>>},
     n \in Tails}

RawData ==
  {<<0, major, minor, 7>> \o WriteLE(length, 4) \o Zeros(n) :
     major \in {0, 2, 3, 255}, minor \in {0, 8, 71},
     length \in {0, 1, 5, 300}, n \in {0, 1, 5, 301}}
  \cup {Zeros(7), <<0, 3, 1, 0, 1, 0, 0, 1>> \o Zeros(9)}

(* Tables on both sides of what a 2.x entry point can say. *)
LongRawData ==
  {<<0, major, 1, 0>> \o WriteLE(length, 4) \o Zeros(length) :
     major \in {2, 3}, length \in {65535, 65536}}

AllInputs ==
  ({"devmem"} \X Windows(2))
    \cup ({"legacy"} \X (Windows(1) \cup Odd)) \cup ({"file"} \X Files)
    \cup ({"windows"} \X (RawData \cup LongRawData))

=============================================================================
