---------------------------- MODULE MCLaunchOrder ----------------------------
(* Bounded inputs for CycleCheck: three services and every kind of         *)
(* depends_on list of at most two patterns that the algorithms tell apart. *)
EXTENDS CycleCheck

MCDepLists ==
    LET bare == {<<"bare", s>> : s \in Services}
        qualified == {<<"qualified", s>> : s \in Services}
    IN  {<<>>, << <<"bare", Unknown>> >>, << <<"foreign", 1>> >>}
        \union {<<a>> : a \in bare \union qualified}
        \union ({<<a, b>> : a, b \in bare} \ {<<a, a>> : a \in bare})
        \union {<< <<"bare", s>>, <<"qualified", s>> >> : s \in Services}

=============================================================================
