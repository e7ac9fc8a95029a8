--------------------------------- MODULE Teams ---------------------------------
(***************************************************************************)
(* The registry of teams: one definition per Team object of                *)
(* src/api/src/ecosystem/teams, in their order.  A team keeps its id and   *)
(* the addresses that publish for it, each on one network; addresses are   *)
(* written as in Projects.                                                 *)
(***************************************************************************)
EXTENDS Naturals, Sequences

OnNetwork(network, addresses) == [network : {network}, address : addresses]

\* A team whose deployers publish on mainnet.
Team(id, deployers) == [id |-> id, deployers |-> OnNetwork("mainnet", deployers)]

OnTestnet(addresses, team) ==
    [team EXCEPT !.deployers = @ \cup OnNetwork("testnet", addresses)]

poolsFinance == Team("pools-finance", {"0x519ebf6b", "0xeadab249"})

virtue == Team("virtue", {"0xf67d0193"})

swirl == Team("swirl", {"0x043b7d4d", "0x119191cd", "0x13b068af"})

cyberperp == Team("cyberperp", {"0x14effa2d"})

iotaroyale == Team("iotaroyale", {"0x21303d10"})

magicsea == Team("magicsea", {"0xddcfad87"})

studio6ff4 == Team("studio-6ff4", {"0x6ff423cb"})

studioB9cf == Team("studio-b9cf", {"0xb9cf086f"})

tlip == Team("tlip", {"0xd7e2de65"})

twinFoundation == Team("twin-foundation", {"0x164625aa"})

salus == Team("salus", {"0x4876d3fc"})

seedlot == Team("seedlot", {"0x52f3cf39"})

objectid == Team("objectid", {"0x59dadd46", "0xbca71c7a"})

turingcerts == Team("turingcerts", {"0xb0c359fa"})

echoProtocol == Team("echo-protocol", {"0x95ec5424"})

layerzero ==
    Team("layerzero", 
        {"0x8a81a609", "0x62279630", "0x76f89ad2", "0x9004e1e4", "0x6bf30187", "0xbd261819"})

wormholeFoundation == Team("wormhole-foundation", {"0x610a7c8f"})

switchboard == Team("switchboard", {"0x55f1256e"})

kamui == Team("kamui", {"0xb5de9637"})

tradeport == Team("tradeport", {"0x20d666d8", "0xae24ce73", "0x4ecf96a1", "0x68e65b6b"})

iotaPunks == Team("iota-punks", {"0x8bfa0f4b"})

apeDao == Team("ape-dao", {"0x03ce67aa"})

studio2cd3 == Team("studio-2cd3", {"0x2cd37802"})

iotaFlip == Team("iota-flip", {"0xbe956850"})

gamifly == Team("gamifly", {"0xfe407119"})

lostCrusader == Team("lost-crusader", {"0x6df6623e", "0x3d9ccdc7"})

risingPhoenix2 == Team("rising-phoenix-2", {"0xfc684adb", "0xd3906909"})

iotaFoundation ==
    Team("iota-foundation", 
        {"0x45745c3d", "0x56afb2ed", "0xedb0c77b", "0x46365ba3", "0x8009891c", "0xd6046214",
        "0xd3906909", "0xbeb1ba75", "0x8779ca52", "0xb83948c6", "0x278f2a12", "0x164625aa"})

studioB8b1 == Team("studio-b8b1", {"0xb8b1380e"})

studio0a0d == Team("studio-0a0d", {"0x0a0d4c9a", "0x4468c8dd"})

clawnera == Team("clawnera", {"0x0a0d4c9a", "0x4468c8dd"})

studioCb69 == Team("studio-cb69", {"0xcb6956e9"})

studio295e == Team("studio-295e", {"0x295ee21b"})

studio5451 == Team("studio-5451", {"0x545160c9"})

studio49c4 == Team("studio-49c4", {"0x49c4e917"})

studiob5fc == Team("studio-b5fc", {"0xb5fca220"})

studio457d == Team("studio-457d", {"0x457dfa6b"})

studiocebe == Team("studio-cebe", {"0xcebec37a"})

studioB30c == Team("studio-b30c", {"0xb30cf677"})

izipublish == Team("izipublish", {"0x0dce85b0", "0x7c33d09b"})

liquidlink == Team("liquidlink", {"0xd6a54ff7"})

boltEarth == Team("bolt-earth", {"0x1d4ec616"})

tokenlabs == Team("tokenlabs", {"0x9bd84e61", "0x55556790"})

shortaktien ==
    OnTestnet({"0x74419d1e"},
    Team("shortaktien", {"0x74419d1e", "0x78dffeb1"}))

-------------------------------------------------------------------------------
ALL_TEAMS ==
    <<poolsFinance, virtue, swirl, cyberperp, iotaroyale, magicsea, studio6ff4, studioB9cf, tlip,
      twinFoundation, salus, seedlot, objectid, turingcerts, echoProtocol, layerzero,
      wormholeFoundation, switchboard, kamui, tradeport, iotaPunks, apeDao, studio2cd3, iotaFlip,
      gamifly, lostCrusader, risingPhoenix2, iotaFoundation, studioB8b1, studio0a0d, clawnera,
      studioCb69, studio295e, studio5451, studio49c4, studiob5fc, studio457d, studiocebe,
      studioB30c, izipublish, liquidlink, boltEarth, tokenlabs, shortaktien>>

===============================================================================
