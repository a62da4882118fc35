-------------------------------- MODULE MCMil --------------------------------
(* Instances of Mil for TLC: the arguments a client uses, and the bounds.  *)
EXTENDS Mil

MCInputNames == {<<"relu", 1>>}
MCNewNames == {<<"relu", 1>>, <<"x", 0>>}
MCInputs == {<<1, 2, 1, 32>>}
MCWeights == {<<2, 1, 1, 3>>, <<2, 2, 1, 1>>}
MCRawShapes == {<<2>>}
MCReshapes == {<<1, 1, 2, 32>>}
MCPerms == {<<0, 3, 2, 1>>}
MCCuts == {[begin |-> <<0, 1, 0, 0>>, end |-> <<1, 2, 1, 32>>]}
MCAxes == {-3}
MCConvs == {DecimatingFir(3, 1, 2), DecimatingFir(3, 4, 2),
            [Conv1d(0, 1) EXCEPT !.strides = <<1, 3>>, !.dilations = <<1, 2>>,
                                 !.groups = 2]}

(* A convolution whose kernel is taller than its input.                    *)
MCTallWeights == {<<2, 2, 2, 1>>}
MCTallConvs == {DefaultConv, [DefaultConv EXCEPT !.strides = <<2, 1>>]}
=============================================================================
