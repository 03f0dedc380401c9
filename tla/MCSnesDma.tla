----------------------------- MODULE MCSnesDma -----------------------------
(* A small instance of SnesDma for TLC. *)
EXTENDS SnesDma

(* A table whose entries follow each other from an address near the end of *)
(* the bank.  An indirect entry points near the end of another.            *)
TableOf(mode, indirect, entries) ==
  LET t == [mode |-> mode, indirect |-> indirect, port |-> 10, entries |-> entries]
      at[k \in 1 .. Len(entries) + 1] ==
        IF k = 1 THEN Size - 3 ELSE (at[k - 1] + Hdma!EntryLength(t, k - 1)) % Size
  IN  [mode |-> mode, indirect |-> indirect, port |-> 10, entries |-> entries,
       at |-> [k \in 1 .. Len(entries) + 1 |-> at[k]]]

(* The tables of up to n entries that fit into the bank.                   *)
TablesOf(modes, bytes, n, indirect) ==
  {t \in {TableOf(m, indirect, e) : m \in modes,
            e \in UNION {[1 .. l -> [byte : bytes, pointer : {Size - 2}]] : l \in 0 .. n}} :
     Hdma!Laid(t)}

Game(chans, modes, tables, lengths) ==
  [chans |-> chans, modes |-> modes, tables |-> tables, starts |-> {Size - 3},
   lengths |-> lengths]

(* A game with direct tables, one with indirect tables on two channels, one *)
(* with general transfers that end inside a unit and one with all of them.  *)
AllGames ==
  <<Game({0}, {}, TablesOf({0, 1, 4}, {1, 3, 4, 5, 7}, 3, FALSE), {}),
    Game({0, 5}, {}, TablesOf({1, 3}, {2, 6}, 1, TRUE), {}),
    Game({1, 2}, {1, 5}, {}, {11}),
    Game({0, 1}, {4}, TablesOf({4}, {6}, 1, FALSE), {3})>>
MCGames == AllGames
=============================================================================
