---------------------------------- MODULE MCSlots -----------------------------------
(***************************************************************************)
(* Room for one component's variables. The components that are checked     *)
(* side by side do not step together: a behaviour is about one of them,    *)
(* chosen at the start, and each is explored with the bounds it needs.     *)
(***************************************************************************)
EXTENDS Integers, Sequences, FiniteSets

VARIABLES
    part, \* the component this behaviour is about; never changes
    \* and its variables, in the order its module declares them
    s1, s2, s3, s4, s5, s6, s7, s8, s9, s10, s11, s12, s13, s14, s15, s16, s17, s18, s19,
    s20, s21, s22, s23, s24, s25, s26

vars == <<part, s1, s2, s3, s4, s5, s6, s7, s8, s9, s10, s11, s12, s13, s14, s15, s16,
    s17, s18, s19, s20, s21, s22, s23, s24, s25, s26>>

\* A component of k variables has the first k; the others are 0 and stay so.
Zero21 == s22 = 0 /\ s23 = 0 /\ s24 = 0 /\ s25 = 0 /\ s26 = 0
Zero19 == s20 = 0 /\ s21 = 0 /\ Zero21
Zero18 == s19 = 0 /\ Zero19
Zero17 == s18 = 0 /\ Zero18
Zero16 == s17 = 0 /\ Zero17
Zero15 == s16 = 0 /\ Zero16
Zero13 == s14 = 0 /\ s15 = 0 /\ Zero15
Zero12 == s13 = 0 /\ Zero13
Zero10 == s11 = 0 /\ s12 = 0 /\ Zero12
Zero9 == s10 = 0 /\ Zero10
Zero6 == s7 = 0 /\ s8 = 0 /\ s9 = 0 /\ Zero9
Zero5 == s6 = 0 /\ Zero6
Zero4 == s5 = 0 /\ Zero5
Zero3 == s4 = 0 /\ Zero4
Keep26 == UNCHANGED <<part>>
Keep21 == UNCHANGED <<part, s22, s23, s24, s25, s26>>
Keep18 == UNCHANGED <<part, s19, s20, s21, s22, s23, s24, s25, s26>>
Keep17 == UNCHANGED <<part, s18, s19, s20, s21, s22, s23, s24, s25, s26>>
Keep16 == UNCHANGED <<part, s17, s18, s19, s20, s21, s22, s23, s24, s25, s26>>
Keep15 == UNCHANGED <<part, s16, s17, s18, s19, s20, s21, s22, s23, s24, s25, s26>>
Keep13 == UNCHANGED <<part, s14, s15, s16, s17, s18, s19, s20, s21, s22, s23, s24, s25,
    s26>>
Keep12 == UNCHANGED <<part, s13, s14, s15, s16, s17, s18, s19, s20, s21, s22, s23, s24, s25,
    s26>>
Keep10 == UNCHANGED <<part, s11, s12, s13, s14, s15, s16, s17, s18, s19, s20, s21, s22, s23,
    s24, s25, s26>>
Keep9 == UNCHANGED <<part, s10, s11, s12, s13, s14, s15, s16, s17, s18, s19, s20, s21, s22,
    s23, s24, s25, s26>>
Keep6 == UNCHANGED <<part, s7, s8, s9, s10, s11, s12, s13, s14, s15, s16, s17, s18, s19,
    s20, s21, s22, s23, s24, s25, s26>>
Keep5 == UNCHANGED <<part, s6, s7, s8, s9, s10, s11, s12, s13, s14, s15, s16, s17, s18, s19,
    s20, s21, s22, s23, s24, s25, s26>>
Keep4 == UNCHANGED <<part, s5, s6, s7, s8, s9, s10, s11, s12, s13, s14, s15, s16, s17, s18,
    s19, s20, s21, s22, s23, s24, s25, s26>>
Keep3 == UNCHANGED <<part, s4, s5, s6, s7, s8, s9, s10, s11, s12, s13, s14, s15, s16, s17,
    s18, s19, s20, s21, s22, s23, s24, s25, s26>>
=============================================================================
