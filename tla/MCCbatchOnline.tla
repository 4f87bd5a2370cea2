---------------------------- MODULE MCCbatchOnline ----------------------------
(* Three requests on two slots with lanes of four positions: prompts that  *)
(* take one or two dispatches, a limit the lane cuts short, a late arrival *)
(* and one that is not in order.  The CPU gate for MLA models is taken     *)
(* with a promotion at startup, and with combinations of its options.      *)
EXTENDS CbatchReverify

Table(f, g, h) == [plen   |-> [r \in Reqs |-> f[r + 1]],
                   maxnew |-> [r \in Reqs |-> g[r + 1]],
                   arrive |-> [r \in Reqs |-> h[r + 1]]]

MCWorkloads == { Table(<<3, 1, 2>>, <<3, 2, 1>>, <<0, 0, 0>>),
                 Table(<<1, 3, 2>>, <<3, 0, 2>>, <<2, 0, 4>>),
                 Table(<<2, 3, 1>>, <<2, 1, 3>>, <<0, 1, 1>>) }

MCGates == { GpuMla, GpuGqa, CpuGqa, CpuMla(FALSE, TRUE, 0, FALSE, FALSE),
             CpuMla(FALSE, FALSE, 2, FALSE, TRUE), CpuMla(TRUE, FALSE, 2, TRUE, FALSE) }

\* A promotion at startup, then columns verified by the first tier alone.
MCTier1Gates == { CpuMla(FALSE, TRUE, 1, FALSE, FALSE) }

=============================================================================
