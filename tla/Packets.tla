------------------------------- MODULE Packets -------------------------------
(***************************************************************************)
(* The sizes of packets: the structs of uo/Packets.hxx, each as the widths *)
(* of its fields, and the tables of uo/Length.cxx that tell the parser     *)
(* where a packet ends.  0 in a table: the packet has a length field;      *)
(* 65535: no such packet.                                                  *)
(***************************************************************************)
EXTENDS Integers, Sequences, Functions, TLC

\* ProtocolVersion
UNKNOWN == 0
V5 == 1
V6 == 2
V6_0_5 == 3
V6_0_14 == 4
V7 == 5
ProtocolVersion == UNKNOWN .. V7

sizeof(struct) == FoldFunction(LAMBDA a, b : a + b, 0, struct)

CredentialsFragment == <<30, 30>>
uo_packet_create_character == <<1, 4, 4, 1, 30, 2, 4, 8, 1, 15, 1, 1, 1, 1, 1, 1,
  1, 1, 1, 1, 2, 2, 2, 2, 2, 1, 1, 4, 4, 2, 2>>
uo_packet_walk == <<1, 1, 1, 4>>
uo_packet_talk_ascii == <<1, 2, 1, 2, 2, 1>>
uo_packet_use == <<1, 4>>
uo_packet_lift_request == <<1, 4, 2>>
uo_packet_drop == <<1, 4, 2, 2, 1, 4>>
uo_packet_drop_6 == <<1, 4, 2, 2, 1, 1, 4>>
uo_packet_mobile_status == <<1, 2, 4, 30, 2, 2, 1, 1, 1, 2, 2, 2, 2, 2, 2, 2, 4, 2,
  2, 2, 1, 1, 2, 2, 2, 2, 2, 2, 2, 4>>
uo_packet_world_item == <<1, 2, 4, 2, 2, 2, 2, 1, 1, 2, 1>>
uo_packet_start == <<1, 4, 4, 2, 2, 2, 2, 1, 1, 4, 2, 2, 2, 2, 6>>
uo_packet_speak_ascii == <<1, 2, 4, 2, 1, 2, 2, 30, 1>>
uo_packet_delete == <<1, 4>>
uo_packet_mobile_update == <<1, 4, 2, 1, 2, 1, 2, 2, 2, 1, 1>>
uo_packet_walk_cancel == <<1, 1, 2, 2, 1, 1>>
uo_packet_walk_ack == <<1, 1, 1>>
uo_packet_container_open == <<1, 4, 2>>
uo_packet_container_open_7 == <<sizeof(uo_packet_container_open), 1, 1>>
uo_packet_fragment_container_item == <<4, 2, 1, 2, 2, 2, 4, 2>>
uo_packet_fragment_container_item_6 == <<4, 2, 1, 2, 2, 2, 1, 4, 2>>
uo_packet_container_update == <<1, sizeof(uo_packet_fragment_container_item)>>
uo_packet_container_update_6 == <<1, sizeof(uo_packet_fragment_container_item_6)>>
uo_packet_lift_reject == <<1, 1>>
uo_packet_equip == <<1, 4, 2, 1, 1, 4, 2>>
uo_packet_container_content == <<1, 2, 2,
  sizeof(uo_packet_fragment_container_item)>>
uo_packet_container_content_6 == <<1, 2, 2,
  sizeof(uo_packet_fragment_container_item_6)>>
uo_packet_global_light_level == <<1, 1>>
uo_packet_personal_light_level == <<1, 4, 1>>
uo_packet_popup_message == <<1, 1>>
uo_packet_login_complete == <<1>>
uo_packet_play_character == <<1, 4, 30, 2, 4, 24, 4, 4>>
uo_packet_target == <<1, 1, 4, 1, 4, 2, 2, 2, 2>>
uo_packet_war_mode == <<1, 1, 3>>
uo_packet_ping == <<1, 1>>
uo_packet_zone_change == <<1, 2, 2, 2, 1, 2, 2, 2, 2>>
uo_packet_mobile_moving == <<1, 4, 2, 2, 2, 1, 1, 2, 1, 1>>
uo_packet_fragment_mobile_item == <<4, 2, 1, 2>>
uo_packet_mobile_incoming == <<1, 2, 4, 2, 2, 2, 1, 1, 2, 1, 1,
  sizeof(uo_packet_fragment_mobile_item)>>
uo_packet_account_login == <<1, sizeof(CredentialsFragment), 1>>
uo_packet_account_login_reject == <<1, 1>>
uo_packet_relay == <<1, 4, 2, 4>>
uo_packet_game_login == <<1, 4, sizeof(CredentialsFragment)>>
uo_packet_play_server == <<1, 2>>
uo_fragment_server_info == <<2, 32, 1, 1, 4>>
uo_packet_server_list == <<1, 2, 1, 2, sizeof(uo_fragment_server_info)>>
uo_fragment_character_info == <<30, 30>>
uo_packet_simple_character_list == <<1, 2, 1, sizeof(uo_fragment_character_info),
  1, 4>>
uo_packet_supported_features == <<1, 2>>
uo_packet_supported_features_6014 == <<1, 4>>
uo_packet_talk_unicode == <<1, 2, 1, 2, 2, 4, 2>>
uo_packet_season == <<1, 1, 1>>
uo_packet_client_version == <<1, 2, 1>>
uo_packet_map_change == <<1, 2, 2, 1>>
uo_fragment_map_patch == <<4, 4>>
uo_packet_map_patches == <<1, 2, 2, 4, sizeof(uo_fragment_map_patch) * 4>>
uo_packet_extended == <<1, 2, 2>>
uo_packet_hardware == <<1, 1, 4, 4, 4, 4, 1, 4, 4, 4, 1, 4, 4, 4, 4, 2, 2, 128, 4,
  4, 4, 1, 1, 1, 1, 8, 64>>
uo_packet_seed == <<1, 4, 4, 4, 4, 4>>
uo_packet_protocol_extension == <<1, 2, 1>>
uo_packet_world_item_7 == <<1, 2, 1, 4, 2, 1, 2, 2, 2, 2, 1, 1, 2, 1, 1, 1>>

-----------------------------------------------------------------------------
\* The first entry of a row is the length of command 0x00, 0x10, ...
Table ==
  <<
  104, 5, 7, 0, 2, 5, 5, 7, 14, 5, 7, 7, 0, 3, 0, 61,
  215, 0, 0, 10, 6, 9, 1, 0, 0, 0, 0, 37, 0, 5, 4, 8,
  19, 8, 3, 26, 7, 20, 5, 2, 5, 1, 5, 2, 2, 17, 15, 10,
  5, 1, 2, 2, 10, 653, 0, 8, 7, 9, 0, 0, 0, 2, 37, 0,
  201, 0, 0, 553, 713, 5, 0, 11, 73, 93, 5, 9, 0, 0, 6, 2,
  0, 0, 0, 2, 12, 1, 11, 110, 106, 0, 0, 4, 2, 73, 0, 49,
  5, 9, 15, 13, 1, 4, 0, 21, 0, 0, 3, 9, 19, 3, 14, 0,
  28, 0, 5, 2, 0, 35, 16, 17, 0, 9, 0, 2, 0, 13, 2, 0,
  62, 0, 2, 39, 69, 2, 0, 0, 66, 0, 0, 0, 11, 0, 0, 0,
  19, 65, 0, 99, 0, 9, 0, 2, 0, 26, 0, 258, 309, 51, 0, 0,
  3, 9, 9, 9, 149, 0, 0, 4, 0, 0, 5, 0, 0, 0, 0, 13,
  0, 0, 0, 0, 0, 64, 9, 0, 0, 3, 6, 9, 3, 0, 0, 0,
  36, 0, 0, 0, 6, 203, 1, 49, 2, 6, 6, 7, 0, 1, 0, 78,
  0, 2, 25, 0, 0, 0, 0, 0, 0, 268, 65535, 65535, 9, 0, 65535, 0,
  0, 9, 10, 77, 65535, 65535, 65535, 65535, 65535, 65535, 65535, 65535, 0, 0, 65535, 21,
  0, 9, 65535, 26, 65535, 21, 65535, 65535, 106, 65535, 1, 2, 65535, 65535, 65535, 65535>>

packet_lengths == [cmd \in 0 .. 255 |-> Table[cmd + 1]]

\* Commands by number, as in uo/Command.hxx.
Drop == 8
ContainerOpen == 36
ContainerUpdate == 37
SupportedFeatures == 185

MakePaketLengths6_OnlyDrop ==
  [packet_lengths EXCEPT ![Drop] = sizeof(uo_packet_drop_6)]

MakePaketLengths6 ==
  [packet_lengths EXCEPT ![Drop] = sizeof(uo_packet_drop_6),
                         ![ContainerUpdate] = sizeof(uo_packet_container_update_6)]

MakePaketLengths6014 ==
  [MakePaketLengths6 EXCEPT
     ![SupportedFeatures] = sizeof(uo_packet_supported_features_6014)]

MakePaketLengths7 ==
  [MakePaketLengths6014 EXCEPT ![ContainerOpen] = sizeof(uo_packet_container_open_7)]

GetPacketLengths(protocol) ==
  IF protocol = V7 THEN MakePaketLengths7
  ELSE IF protocol = V6_0_14 THEN MakePaketLengths6014
  ELSE IF protocol \in {V6, V6_0_5} THEN MakePaketLengths6
  ELSE packet_lengths

-----------------------------------------------------------------------------
\* The structs that handlers cast a whole packet to and that are sent as they
\* are, by command, where they do not depend on the protocol.  AccountLogin2
\* (207) is left out: its handler takes it for an AccountLogin.
Struct ==
  0 :> uo_packet_create_character @@ 2 :> uo_packet_walk @@ 6 :> uo_packet_use
  @@ 7 :> uo_packet_lift_request @@ 27 :> uo_packet_start @@ 29 :> uo_packet_delete
  @@ 32 :> uo_packet_mobile_update @@ 33 :> uo_packet_walk_cancel
  @@ 34 :> uo_packet_walk_ack @@ 39 :> uo_packet_lift_reject @@ 46 :> uo_packet_equip
  @@ 78 :> uo_packet_personal_light_level @@ 79 :> uo_packet_global_light_level
  @@ 83 :> uo_packet_popup_message @@ 85 :> uo_packet_login_complete
  @@ 93 :> uo_packet_play_character @@ 108 :> uo_packet_target
  @@ 114 :> uo_packet_war_mode @@ 115 :> uo_packet_ping @@ 118 :> uo_packet_zone_change
  @@ 119 :> uo_packet_mobile_moving @@ 128 :> uo_packet_account_login
  @@ 130 :> uo_packet_account_login_reject @@ 140 :> uo_packet_relay
  @@ 145 :> uo_packet_game_login @@ 160 :> uo_packet_play_server
  @@ 188 :> uo_packet_season @@ 217 :> uo_packet_hardware @@ 239 :> uo_packet_seed
  @@ 243 :> uo_packet_world_item_7

\* Those with a length field; the last field of some is the first of many.
VariableStruct ==
  3 :> uo_packet_talk_ascii @@ 17 :> uo_packet_mobile_status
  @@ 26 :> uo_packet_world_item @@ 28 :> uo_packet_speak_ascii
  @@ 60 :> uo_packet_container_content @@ 120 :> uo_packet_mobile_incoming
  @@ 168 :> uo_packet_server_list @@ 169 :> uo_packet_simple_character_list
  @@ 173 :> uo_packet_talk_unicode @@ 189 :> uo_packet_client_version
  @@ 191 :> uo_packet_extended @@ 240 :> uo_packet_protocol_extension

\* The structs whose choice the handlers make by protocol.
StructFor(protocol) ==
  Drop :> (IF protocol < V6 THEN uo_packet_drop ELSE uo_packet_drop_6)
  @@ ContainerOpen :>
       (IF protocol < V7 THEN uo_packet_container_open ELSE uo_packet_container_open_7)
  @@ ContainerUpdate :>
       (IF protocol < V6 THEN uo_packet_container_update ELSE uo_packet_container_update_6)
  @@ SupportedFeatures :>
       (IF protocol < V6_0_14 THEN uo_packet_supported_features
        ELSE uo_packet_supported_features_6014)
  @@ Struct
=============================================================================
