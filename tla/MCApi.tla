-------------------------------- MODULE MCApi --------------------------------
\* A port of each family, two users.
EXTENDS ApiProperties, TLC

CONSTANTS u1, u2, w1, w2

Users    == {u1, u2}
Families == {"FSCC", "old_FSCC", "PCI", "PCIe"}
Words    == {w1, w2}

\* A command of every kind: switched on and off with its status dropped or kept,
\* with a number, with user memory, refused by some or all families, unknown.
SomeCommands ==
  ({"enable", "disable", "get"} \X {"echo_cancel", "termination", "isochronous"})
    \cup {<<"set", "sample_rate">>, <<"get", "sample_rate">>, <<"set", "frame_length">>,
          <<"set", "baud_rate">>, <<"get", "baud_rate">>, <<"set", "clock_rate">>,
          <<"set", "clock_bits">>, <<"get", "card_type">>, <<"get", "dev_info">>,
          <<"get", "fixed_baud_rate">>, <<"unknown", "none">>}

SomeAttributes == {"echo_cancel", "isochronous", "sample_rate", "baud_rate"}

\* The edges of the ranges: no mode; a mode, a rate and a length; nearly the
\* slowest baud rate that 20 bits hold at 4 samples, which is no length.
Numbers == {-1, 4, 479}

Texts == {[hex |-> 0, dec |-> 0], [hex |-> 8, dec |-> 8],     \* 0, 8
          [hex |-> 569, dec |-> 239],                         \* 239, which 479 at
                                                              \* 4 is shown as at 8
          [hex |-> -1, dec |-> 0]}                            \* ffffffff

Interchangeable == Permutations(Users) \cup Permutations(Words)
=============================================================================
