------------------------------- MODULE Projects -------------------------------
(***************************************************************************)
(* The registry of projects: one definition per ProjectDefinition object   *)
(* of src/api/src/ecosystem/projects, and the order in which they are      *)
(* tried.  A definition keeps what classification reads: the name, the     *)
(* team, the match rule, whether packages split by deployer, and the       *)
(* object types that count as items.  Descriptions, links, logos and       *)
(* attributions are prose for the pages and are left out.                  *)
(*                                                                         *)
(* An address is written by its first eight digits (system packages by     *)
(* their number): no two addresses of the registry share them.  A          *)
(* fingerprint lists the fields of a sampled object and what each must     *)
(* be, as one string per constraint.                                       *)
(***************************************************************************)
EXTENDS TLC

\* teamId: null, of a project that collects unrelated deployments.
NoTeam == "none"

\* A match without criteria.
NoRule ==
    [packageAddresses |-> {}, deployerAddresses |-> {}, exact |-> {}, all |-> {}, any |-> {},
     minModules |-> 0, objectTypes |-> {}, fingerprint |-> [module |-> "none"]]

\* A definition; the criteria that `match` does not name are empty.
Project(name, teamId, match) ==
    [name |-> name, teamId |-> teamId, network |-> "mainnet", match |-> match @@ NoRule,
     splitByDeployer |-> FALSE, countTypes |-> {}]

SplitByDeployer(def) == [def EXCEPT !.splitByDeployer = TRUE]

Counting(types, def) == [def EXCEPT !.countTypes = types]

-------------------------------------------------------------------------------
\* DeFi

poolsFinance ==
    Project("Pools Finance", "pools-finance", [all |-> {"amm_config", "amm_router"}])

virtueStabilityPool ==
    Project("Virtue Stability Pool", "virtue", [all |-> {"balance_number", "stability_pool"}])

virtue ==
    Project("Virtue", "virtue", [deployerAddresses |-> {"0xf67d0193"}])

swirl ==
    Project("Swirl V2", "swirl", [deployerAddresses |-> {"0x119191cd", "0x13b068af"}])

swirlV1 ==
    Project("Swirl V1", "swirl", [deployerAddresses |-> {"0x043b7d4d"}])

cyberperp ==
    Project("CyberPerp (L1 Move)", "cyberperp", [deployerAddresses |-> {"0x14effa2d"}])

iotaroyale ==
    Project("IotaRoyale", "iotaroyale", [deployerAddresses |-> {"0x21303d10"}])

clawSwapGateway ==
    Project("CLAW Swap Gateway", "studio-0a0d",
        [deployerAddresses |-> {"0x0a0d4c9a"},
         all |-> {"claw_swap_gateway"}])

virtuePoints ==
    Project("Virtue Points", "studio-6ff4",
        [deployerAddresses |-> {"0x6ff423cb"},
         any |-> {"point", "point_manager"}])

multiAssetBank ==
    Project("Multi-Asset Bank", "studio-b9cf",
        [deployerAddresses |-> {"0xb9cf086f"},
         all |-> {"bank"}])

-------------------------------------------------------------------------------
\* Trade and enterprise

tlip ==
    Project("TLIP", "tlip",
        [packageAddresses |-> {"0xdeadee97"},
         all |-> {"ebl"}])

twinImmutableProof ==
    Project("TWIN ImmutableProof", "twin-foundation", [all |-> {"verifiable_storage"}])

twinNft ==
    Project("TWIN NFT (Pre-launch)", "twin-foundation",
        [deployerAddresses |-> {"0x164625aa"},
         all |-> {"nft"},
         objectTypes |-> {"MigrationState", "UpgradeCapRegistry"}])

notarization ==
    Project("Notarization", "iota-foundation", [all |-> {"dynamic_notarization"}])

iotaAssetFramework ==
    Project("Identity Asset Framework", "iota-foundation",
        [all |-> {"asset", "multicontroller", "controller_proposal"}])

iotaAccreditationRegistry ==
    Project("Accreditation Registry", "iota-foundation",
        [all |-> {"accreditation", "property", "property_value"}])

traceability ==
    Project("Traceability", "iota-foundation", [all |-> {"traceability"}])

salus ==
    Project("Salus Platform", "salus",
        [packageAddresses |-> {"0xf5e4f559"},
         fingerprint |-> [module |-> "nft", type |-> "nft::NFT",
                         fields |-> {<<"issuer", "is 0x4876d3fc">>, <<"tag", "is salus">>}]])

truvid ==
    Project("TruvID", "studio-295e", [deployerAddresses |-> {"0x295ee21b"}])

seedlotLakeToba ==
    Project("Seedlot - Lake Toba Collective", "seedlot",
        [deployerAddresses |-> {"0x52f3cf39"}])

-------------------------------------------------------------------------------
\* Identity

identityFull ==
    Project("Identity (full)", "iota-foundation",
        [all |-> {"wot_identity", "file_vault", "mailbox"}])

identityWot ==
    Project("Identity (WoT)", "iota-foundation", [all |-> {"wot_identity", "wot_trust"}])

objectid ==
    Project("ObjectID", "objectid", [deployerAddresses |-> {"0x59dadd46", "0xbca71c7a"}])

credentials ==
    Project("Credentials", "iota-foundation",
        [exact |-> {"credentials", "identity", "trust"}])

iotaNames ==
    Project("IOTA Names", "rising-phoenix-2",
        [deployerAddresses |-> {"0xfc684adb"},
         fingerprint |-> [module |-> "name_registration", type |-> "name_registration::NameRegistration",
                         fields |-> {<<"name_str", "suffix .iota">>}]])

iotaLink ==
    Project("IOTA Link", "iota-foundation",
        [packageAddresses |-> {"0x1badcfaf"},
         fingerprint |-> [module |-> "iotalink", type |-> "iotalink::IotaLink",
                         fields |-> {<<"common_image_url", "suffix IOTA-Link-NFT.mp4">>}]])

carNft ==
    Project("Car NFT", "studio-5451", [deployerAddresses |-> {"0x545160c9"}])

turingcerts ==
    Project("Turing Certs", "turingcerts",
        [deployerAddresses |-> {"0xb0c359fa"},
         any |-> {"turingcerts", "vc_envelope", "vc_data"}])

-------------------------------------------------------------------------------
\* Bridges

echoProtocolBridge ==
    Project("Echo Protocol Bridge", "echo-protocol",
        [all |-> {"bridge", "committee", "ibtc", "treasury"}])

layerZero ==
    Project("LayerZero", "layerzero", [deployerAddresses |-> {"0x8a81a609"}])

layerZeroWorkers ==
    Project("LayerZero Workers", "layerzero",
        [deployerAddresses |-> {"0x62279630", "0x76f89ad2", "0x9004e1e4"}])

layerZeroPriceFeed ==
    Project("LayerZero Executor Price Feed", "layerzero",
        [deployerAddresses |-> {"0x6bf30187"},
         all |-> {"price_feed", "price_feed_witness"}])

layerZeroCounterExample ==
    Project("LayerZero Counter (Example OApp)", "layerzero",
        [packageAddresses |-> {"0x980f5583"}])

layerZeroOft ==
    SplitByDeployer(Project("LayerZero OFT", NoTeam, [all |-> {"oft", "oft_impl"}]))

wormhole ==
    Project("Wormhole", "wormhole-foundation", [all |-> {"consumed_vaas", "cursor"}])

-------------------------------------------------------------------------------
\* Oracles

pythOracle ==
    Project("Pyth Oracle", "wormhole-foundation", [all |-> {"batch_price_attestation"}])

switchboardOracle ==
    Project("Switchboard Oracle", "switchboard",
        [all |-> {"aggregator", "aggregator_init_action"},
         minModules |-> 10])

kamuiVrf ==
    Project("Kamui VRF", "kamui",
        [deployerAddresses |-> {"0xb5de9637"},
         all |-> {"kamui_iota_vrf"}])

-------------------------------------------------------------------------------
\* NFT

nftLaunchpad ==
    Project("NFT Launchpad", "tradeport", [all |-> {"launchpad", "mint_box"}])

tradeportEarlyMover ==
    Project("Tradeport - Proof of Early Mover", "tradeport",
        [packageAddresses |-> {"0x876bd726"}])

tradeport ==
    Project("Tradeport", "tradeport",
        [deployerAddresses |-> {"0x20d666d8", "0xae24ce73", "0x4ecf96a1"}])

nftCollections ==
    SplitByDeployer(Project("NFT Collections", NoTeam, [exact |-> {"nft"}]))

healthyGang ==
    Counting({"iota_healthy_gang_::Nft"},
    Project("Healthy Gang", "studio-cb69",
        [fingerprint |-> [module |-> "iota_healthy_gang_", type |-> "iota_healthy_gang_::Nft",
                         fields |-> {<<"name", "prefix Healthy Gang #">>}]]))

ghostLights ==
    Counting({"ghost_lights::Nft"},
    Project("Ghost Lights", "studio-cb69", [exact |-> {"ghost_lights"}]))

tanapaz ==
    Counting({"tanapaz::Nft"},
    Project("Tanapaz", "studio-cb69", [exact |-> {"tanapaz"}]))

tomaRajadao ==
    Counting({"toma_rajadao::Nft"},
    Project("Toma Rajadao", "studio-cb69", [exact |-> {"toma_rajadao"}]))

tranquilidadeDrops ==
    Counting({"tranquilidade_drops::Nft"},
    Project("Tranquilidade Drops", "studio-cb69", [exact |-> {"tranquilidade_drops"}]))

studioCb69Aggregate ==
    SplitByDeployer(Project("Studio 0xcb6956e9", "studio-cb69", [deployerAddresses |-> {"0xcb6956e9"}]))

gamiflyAylab ==
    Counting({"aylab_1::Aylab1NFT", "aylab_2::Aylab2NFT", "aylab_3::Aylab3NFT"},
    Project("Gamifly - Aylab", "gamifly",
        [deployerAddresses |-> {"0xfe407119"},
         any |-> {"aylab_1", "aylab_2", "aylab_3"}]))

gamiflyIsla ==
    Counting({"isla_silver::IslaSilverNFT", "isla_gold::IslaGoldNFT"},
    Project("Gamifly - Isla", "gamifly",
        [deployerAddresses |-> {"0xfe407119"},
         any |-> {"isla_silver", "isla_gold"}]))

gamiflyOtterfly ==
    Counting({"otterfly_1::OtterFly1NFT", "otterfly_2::OtterFly2NFT",
              "otterfly_3::OtterFly3NFT"},
    Project("Gamifly - Otterfly", "gamifly",
        [deployerAddresses |-> {"0xfe407119"},
         any |-> {"otterfly_1", "otterfly_2", "otterfly_3"}]))

gamiflyChamillion ==
    Counting({"chamillion::ChamillionNFT"},
    Project("Gamifly - Chamillion", "gamifly",
        [deployerAddresses |-> {"0xfe407119"},
         all |-> {"chamillion"}]))

iotaPunks ==
    Counting({"iotapunks::IotaPunk"},
    Project("IOTAPUNKS", "iota-punks", [deployerAddresses |-> {"0x8bfa0f4b"}]))

ogApe ==
    Counting({"ogape_nft::OGApeNFT"},
    Project("OG Ape", "ape-dao",
        [deployerAddresses |-> {"0x03ce67aa"},
         all |-> {"ogape_nft"}]))

lilApe ==
    Counting({"lilape_nft::LilApeNFT"},
    Project("Lil' Ape", "ape-dao",
        [deployerAddresses |-> {"0x03ce67aa"},
         all |-> {"lilape_nft"}]))

lumis ==
    Counting({"lumi_nft::LumiNFT"},
    Project("Lumis", "magicsea",
        [deployerAddresses |-> {"0xddcfad87"},
         all |-> {"lumi_nft"}]))

iotaEstoicos ==
    Counting({"estoicos::EstoicosNFT"},
    Project("IOTA Estoicos", "studio-457d",
        [deployerAddresses |-> {"0x457dfa6b"},
         all |-> {"estoicos"}]))

ctrlvAgents ==
    Counting({"ctrlv_agent::AgentNFT"},
    Project("ctrlv AI Agents", "studio-cebe",
        [deployerAddresses |-> {"0xcebec37a"},
         all |-> {"ctrlv_agent"}]))

phishingSpray49c4 ==
    Project("Phishing Spray (PANDABYTE / Kiln)", "studio-49c4",
        [deployerAddresses |-> {"0x49c4e917"}])

numberOneFreeNft ==
    Counting({"free_nft::FreeNFT"},
    Project("Number 1 Collection", "studio-2cd3",
        [packageAddresses |-> {"0x86a84861"},
         all |-> {"free_nft"}]))

-------------------------------------------------------------------------------
\* Games

chess ==
    Project("Chess", "studio-b8b1", [all |-> {"chess"}])

ticTacToe ==
    Project("Tic Tac Toe", "studio-b8b1", [all |-> {"tic_tac_iota"}])

game2048 ==
    Project("2048 Game", "studio-b8b1", [all |-> {"campaign_rewards", "game_2048"}])

iotaFlip ==
    Project("IOTA Flip", "iota-flip", [any |-> {"iota_flip", "roulette", "raffle"}])

lostCrusaderArcaneDust ==
    Counting({"arcane_dust::ArcaneDust"},
    Project("Lost Crusader - Arcane Rush", "lost-crusader",
        [deployerAddresses |-> {"0x6df6623e"},
         all |-> {"arcane_dust"}]))

lostCrusaderReviveSpells ==
    Counting({"arcane_dust::SoulboundNFT", "revive_spell::ReviveSpell"},
    Project("Lost Crusader - Revive Spells", "lost-crusader",
        [deployerAddresses |-> {"0x3d9ccdc7"},
         any |-> {"arcane_dust", "revive_spell"}]))

-------------------------------------------------------------------------------
\* Chain primitives and the rest

stardustFramework ==
    Project("Stardust Framework", "iota-foundation", [packageAddresses |-> {"0x107a"}])

legacyMigrationHistory ==
    Project("Legacy Migration History", "iota-foundation",
        [packageAddresses |-> {"0x4770d22b"},
         all |-> {"legacy_migration_history"}])

iotaEvmAnchor ==
    Project("IOTA EVM Anchor", "iota-foundation",
        [packageAddresses |-> {"0x1b33a3cf"},
         all |-> {"anchor", "assets_bag", "request"}])

studioB30cRootAnchor ==
    Project("Studio 0xb30cf677 - Root Anchor", "studio-b30c",
        [deployerAddresses |-> {"0xb30cf677"}])

clawnera ==
    Project("Clawnera", "clawnera", [all |-> {"dispute_quorum", "escrow"}])

vault ==
    Project("Vault", "studio-b8b1", [exact |-> {"vault"}])

tokenSale ==
    Project("Token Sale", "studio-0a0d", [any |-> {"spec_sale_multicoin", "spec_sale_v2"}])

izipublish ==
    Project("izipublish", "izipublish", [all |-> {"easy_publish"}])

giftDrop ==
    Project("Gift Drop", "studio-b8b1", [all |-> {"giftdrop_iota"}])

liquidlink ==
    Project("LiquidLink", "liquidlink", [deployerAddresses |-> {"0xd6a54ff7"}])

boltEarth ==
    Project("Bolt.Earth RealFi", "bolt-earth", [all |-> {"bolt", "station"}])

my2centsV1 ==
    Counting({"twitter::Tweet", "twitter::TweetLike", "twitter::Retweet",
              "twitter::Subscription", "twitter::UserProfile"},
    Project("My2Cents (v1)", "shortaktien", [packageAddresses |-> {"0x54f706fc"}]))

my2centsV2 ==
    Counting({"twitter_v2::Tweet", "twitter_v2::TweetLike", "twitter_v2::Retweet",
              "twitter_v2::Subscription", "twitter_v2::UserProfile"},
    Project("My2Cents", "shortaktien", [packageAddresses |-> {"0xbe387a1f"}]))

tokenlabsStaking ==
    Project("TokenLabs Staking Framework", "tokenlabs", [all |-> {"stake", "stake_config"}])

tokenlabsVIota ==
    Project("TokenLabs Liquid Staking (vIOTA)", "tokenlabs",
        [packageAddresses |-> {"0xe4abf8b6", "0x6ab984df"}])

tokenlabsTln ==
    Project("TLN Token", "tokenlabs", [exact |-> {"tln_token"}])

tokenlabsPayment ==
    Project("TokenLabs Payment", "tokenlabs",
        [deployerAddresses |-> {"0x55556790"},
         all |-> {"simple_payment"}])

nativeStaking ==
    Project("Native Staking", "iota-foundation", [packageAddresses |-> {"0x3"}])

iotaFramework ==
    Project("Framework", "iota-foundation", [packageAddresses |-> {"0x2"}])

stardustMigratedTokens ==
    Project("Stardust Migrated Tokens", "iota-foundation",
        [packageAddresses |-> {"0x01b6210b", "0x038ff2c9", "0x03c15eca", "0x03d67aff",
                              "0x044bbb8b", "0x0d2f069e", "0x0d9f29a1", "0x1032c97e",
                              "0x11bd7919", "0x135e4cc5", "0x13d76965", "0x1a1b4769",
                              "0x2010d79e", "0x233afbec", "0x2a6438c3", "0x315c6185",
                              "0x328ab20a", "0x382e0791", "0x3b0ff132", "0x3b21b145",
                              "0x3cad4e2c", "0x45f20f8f", "0x49baadcb", "0x4ec90802",
                              "0x59899b2f", "0x5b11e6db", "0x6779546f", "0x6882dbe3",
                              "0x6af1002e", "0x7154754c", "0x73e17ca3", "0x752e4f4d",
                              "0x7668bd2c", "0x7712a09c", "0x7aa121e1", "0x7cf0467b",
                              "0x7eb0362a", "0x834b22b7", "0x85150517", "0x85a432f1",
                              "0x87f92cac", "0x8aa3ce90", "0x8c9aea78", "0x94184d9e",
                              "0x95d0e7e0", "0x98655654", "0x992897e0", "0x9e8e7a6f",
                              "0xa48606ff", "0xaac8131e", "0xacda7c28", "0xb0965c82",
                              "0xb0d81d1e", "0xb3ab8447", "0xb3d9b02a", "0xb70f2ffc",
                              "0xb904d176", "0xb9d10326", "0xbd76c4d6", "0xc166f70d",
                              "0xc327b9ba", "0xc4d4a92b", "0xc65bdaab", "0xc6bea377",
                              "0xc726ce4a", "0xc7685fb2", "0xd42f52d6", "0xd6eda59c",
                              "0xd9590880", "0xe1e504ad", "0xe51256a0", "0xe579bdd5",
                              "0xeaa3fef3", "0xec8facd8", "0xf18a4c00", "0xf18af69f",
                              "0xf59811d1", "0xf9616ea9", "0xfa69281b"}])

krillTube ==
    Project("KrillTube", "studio-b8b1",
        [deployerAddresses |-> {"0xb8b1380e"},
         all |-> {"tunnel"}])

giveRep ==
    Project("GiveRep", "studio-b8b1",
        [deployerAddresses |-> {"0xb8b1380e"},
         all |-> {"giverep_claim"}])

carbonCredits ==
    Project("Carbon Credits", "studio-b5fc", [deployerAddresses |-> {"0xb5fca220"}])

iotaSpam ==
    Counting({"nft::SpamNFT"},
    Project("Spam Club", "rising-phoenix-2",
        [deployerAddresses |-> {"0xd3906909"},
         any |-> {"spam", "icon", "custom_metadata_registry", "nft", "airdrop", "rebased_nft",
                 "test_nft", "mockcoin"}]))

studioB8b1Demos ==
    Project("Studio 0xb8b1380e - Demos", "studio-b8b1",
        [deployerAddresses |-> {"0xb8b1380e"},
         any |-> {"demo_coin", "demo_krill_coin", "gas_station", "game_2048"}])

studio0a0dExtras ==
    Project("Studio 0a0d - CLAW Token and SPEC Packs", "studio-0a0d",
        [deployerAddresses |-> {"0x0a0d4c9a", "0x4468c8dd"},
         any |-> {"spec_packs", "claw_coin", "onchain_asset_lane_manager",
                 "order_payment_assets", "payment_assets"}])

ifTesting ==
    Project("Testing", "iota-foundation", NoRule)

-------------------------------------------------------------------------------
\* In the order in which they are tried.
ALL_PROJECTS ==
    <<poolsFinance, virtueStabilityPool, virtue, swirl, swirlV1, cyberperp, iotaroyale,
      clawSwapGateway, virtuePoints, multiAssetBank, tlip, twinImmutableProof, twinNft,
      notarization, iotaAssetFramework, iotaAccreditationRegistry, traceability, salus, truvid,
      seedlotLakeToba, identityFull, identityWot, objectid, credentials, iotaNames, iotaLink,
      carNft, turingcerts, echoProtocolBridge, layerZero, layerZeroWorkers, layerZeroPriceFeed,
      layerZeroCounterExample, layerZeroOft, wormhole, pythOracle, switchboardOracle, kamuiVrf,
      nftLaunchpad, tradeportEarlyMover, tradeport, nftCollections, healthyGang, ghostLights,
      tanapaz, tomaRajadao, tranquilidadeDrops, studioCb69Aggregate, gamiflyAylab, gamiflyIsla,
      gamiflyOtterfly, gamiflyChamillion, iotaPunks, ogApe, lilApe, lumis, iotaEstoicos,
      ctrlvAgents, phishingSpray49c4, numberOneFreeNft, chess, ticTacToe, game2048, iotaFlip,
      lostCrusaderArcaneDust, lostCrusaderReviveSpells, stardustFramework, legacyMigrationHistory,
      iotaEvmAnchor, studioB30cRootAnchor, clawnera, vault, tokenSale, izipublish, giftDrop,
      liquidlink, boltEarth, my2centsV1, my2centsV2, tokenlabsStaking, tokenlabsVIota,
      tokenlabsTln, tokenlabsPayment, nativeStaking, iotaFramework, stardustMigratedTokens,
      krillTube, giveRep, carbonCredits, iotaSpam, studioB8b1Demos, studio0a0dExtras, ifTesting>>

===============================================================================
