---------------------------- MODULE MCSerialLink ----------------------------
\* The default delimiter "*-*", two of its characters and a single one, with and
\* without checksum and Hamming code, and SIGINT for a receiver with the Hamming
\* code and for a device that only sends; the packets are empty, one byte that is
\* not coded without a delimiter in it, and the default delimiter itself
EXTENDS SerialLink

Config(delimiter, crc, hamming, blocking, direction, nets, packets, signals) ==
  [delim |-> delimiter, crc |-> crc, hamming |-> hamming, blocking |-> blocking,
   direction |-> direction, nets |-> nets, packets |-> packets, signals |-> signals]
Three == <<42, 45, 42>>
Two == <<42, 45>>
MCConfigs ==
  {Config(Three, TRUE, FALSE, TRUE, "both", {"serial"}, 2, 0),
   Config(Two, FALSE, FALSE, TRUE, "both", {"serial"}, 3, 0),
   Config(Three, TRUE, FALSE, FALSE, "both", {"serial"}, 2, 0),
   Config(Three, TRUE, TRUE, TRUE, "both", {"serial"}, 2, 0),
   Config(<<10>>, FALSE, FALSE, TRUE, "both", {"serial"}, 2, 0),
   Config(<<10>>, TRUE, FALSE, TRUE, "both", {"serial", "redis"}, 2, 0),
   Config(<<10>>, TRUE, FALSE, TRUE, "receive", {"redis"}, 2, 0),
   Config(Three, TRUE, TRUE, TRUE, "both", {"serial"}, 1, 1),
   Config(<<10>>, TRUE, FALSE, TRUE, "send", {"serial", "redis"}, 1, 1)}
MCPayloads == {<<97>>, Three, << >>}
=============================================================================
