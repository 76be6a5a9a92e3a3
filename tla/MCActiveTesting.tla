-------------------------- MODULE MCActiveTesting --------------------------
(* Instances of ActiveTesting: directories of two manifests that share a    *)
(* rule, known by the marker of the run, by a word of their own, by a query *)
(* or, as in the documentation, by the template.                            *)
EXTENDS ActiveTesting

CONSTANTS R, S,   \* Wazuh rules
          Word    \* a fixed marker

Marked ==
  [raises |-> {R}, accepts |-> {R}, query |-> FALSE, marker |-> Absent, says |-> {Template}]
MarkedLoosely == [Marked EXCEPT !.raises = {R, S}, !.accepts = {R, S}]
Worded == [Marked EXCEPT !.marker = Word, !.says = {Word}]
Queried == [Marked EXCEPT !.query = TRUE]
Documented == [Marked EXCEPT !.marker = Template]

MCSuites == {<<Marked, MarkedLoosely>>, <<Worded, Marked>>, <<Queried, Marked>>}
MCDocumented == {<<Documented>>}
=============================================================================
