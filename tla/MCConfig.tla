------------------------------ MODULE MCConfig ------------------------------
(* IniFile with one entry of each kind, and few texts. *)
EXTENDS IniFile, TLC

MCAtoi == ("0" :> 0) @@ ("10" :> 10) @@ ("fast" :> 0)

MCDecimal == (0 :> "0") @@ (10 :> "10")

MCShortNames == {"M8 \"A\"", "\"A\"", " A", "A"}

Product == "M8 with a very long product name"
ProductCut == "M8 with a very long product nam[keyboard]"
MCLongNames == {Product, ProductCut}

\* Quotes inside a name stay; around it they are lost, as are outer blanks.
MCReadBack ==
  [n \in MCShortNames \cup LongNames |->
     CASE n \in {"\"A\"", " A"}         -> "A"
       [] n \in {Product, ProductCut}   -> ProductCut
       [] OTHER                         -> n]

MCDefaults ==
  [e \in Entries |->
     CASE e = "audio_device_name" -> NoName
       [] e \in {"fullscreen"} -> 0
       [] e \in Switches \ {"fullscreen"} -> 1
       [] OTHER -> 10]

MCOrder ==
  [graphics |-> <<"fullscreen", "use_gpu", "idle_ms">>,
   audio    |-> <<"audio_enabled", "audio_buffer_size", "audio_device_name">>,
   keyboard |-> <<"key_up">>]

\* The long names fill the line at "nam".
MCSpelling ==
  [x \in FlagTexts \cup NumberTexts \cup Names \cup {"Default"} |->
     CASE x = "M8 \"A\""    -> <<"M8", " ", "\"", "A", "\"">>
       [] x = "\"A\""       -> <<"\"", "A", "\"">>
       [] x = " A"          -> <<" ", "A">>
       [] x = Product      -> <<"M8 with a very long product nam", "e">>
       [] x = ProductCut   -> <<"M8 with a very long product nam", "[", "keyboard", "]">>
       [] OTHER            -> <<x>>]

MCWidth ==
  ("audio_device_name" :> 17) @@ ("M8 with a very long product nam" :> 31)
  @@ ("audio_buffer_size" :> 17) @@ ("keyboard" :> 8) @@ ("Default" :> 7)
=============================================================================
