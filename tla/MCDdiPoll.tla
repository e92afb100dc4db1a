----------------------------- MODULE MCDdiPoll ------------------------------
(* Small instances of DdiPoll for TLC.                                     *)
EXTENDS DdiPoll

HMS(h, m, s) == h \o <<10>> \o m \o <<10>> \o s

\* "00:00:00" to "23:50:07" and "99:99:99"; one too short and one too long;
\* and eight characters of another form: "1:23:456", ":::::::7", "5 minute".
MCSleepStrings ==
  {HMS(h, m, s) : h \in {<<0,0>>, <<2,3>>}, m \in {<<0,0>>, <<5,0>>}, s \in {<<0,0>>, <<0,7>>}}
  \cup {HMS(<<9,9>>, <<9,9>>, <<9,9>>), HMS(<<0>>, <<0,0>>, <<3,0>>), HMS(<<0,0,0>>, <<0,0>>, <<3,0>>)}
  \cup {<<1,10,2,3,10,4,5,6>>, <<10,10,10,10,10,10,10,7>>, <<5,10,10,10,10,10,10,10>>}
=============================================================================
