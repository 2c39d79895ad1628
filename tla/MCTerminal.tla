------------------------------ MODULE MCTerminal ------------------------------
(* An instance of Terminal: three sizes, the higher ones with fewer         *)
(* columns, erased text kept in the scrollback or not, the alternate screen *)
(* forbidden or not.                                                        *)
EXTENDS Terminal

OneText == {1}
ThreeSizes == {<<2, 3>>, <<3, 2>>, <<4, 2>>}
SomeModes == {3, 6, 7, 47, 1047, 1048, 1049}
SmallArgs == {0, 1, 2}

TwoConfigs ==
    {[erase_to_scrollback |-> TRUE, no_alt_screen |-> FALSE, dec_om |-> FALSE, savelines |-> 2],
     [erase_to_scrollback |-> FALSE, no_alt_screen |-> TRUE, dec_om |-> TRUE, savelines |-> 1]}
===============================================================================
