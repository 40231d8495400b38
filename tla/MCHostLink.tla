------------------------------ MODULE MCHostLink ------------------------------
(***************************************************************************)
(* HostLink with VMware groups around an SQL one.  va protects two VMs and *)
(* a third whose BIOS uuid is nowhere, vb one, and vc one whose BIOS uuid  *)
(* happens to begin like vCenter's; two objects fit, so va alone fills the *)
(* cap.                                                                    *)
(***************************************************************************)
EXTENDS HostLink

CONSTANTS va, sq, vb, vc

Listings ==
    {<<>>, <<sq>>, <<va, sq, vb>>, <<vb, va>>, <<va, vb, sq, vc>>, <<vc, sq, va, vb>>}

VMwareGroups == {va, vb, vc}

Is(spelling, uuid) == [as |-> spelling, of |-> uuid]

Plain(uuid) == (<<"vCenterSummary", "biosUuid">> :> Is("canonical", uuid))
               @@ (<<"", "uuid">> :> Is("canonical", uuid + 100))

\* A better name with a Cohesity id in it, and a lesser one with VMware's spelling.
Fallen(uuid) == (<<"", "biosUuid">> :> Is("numeric", uuid + 200))
                @@ (<<"vmwareParams", "hardwareUuid">> :> Is("prefixed", uuid))
                @@ (<<"", "uuid">> :> Is("canonical", uuid + 100))

NoBios == (<<"", "uuid">> :> Is("canonical", 199))

By(group, objects) == [group |-> group, objects |-> objects]

SomeAnswers ==
    (va :> {<<By(va, <<Plain(41), Fallen(42)>>), By(vb, <<Plain(40)>>)>>,
            <<By("", <<Plain(41)>>)>>, <<By(va, <<NoBios>>)>>, <<>>})
    @@ (vb :> {<<By(vb, <<Plain(40)>>)>>})
    @@ (vc :> {<<By(vc, <<Plain(53)>>)>>, <<By(vc, <<Plain(53), NoBios>>)>>})
    @@ (sq :> {<<By(sq, <<NoBios>>)>>})

SomeFirmware == (va :> {41, 42}) @@ (vb :> {40}) @@ (vc :> {53})

==============================================================================
