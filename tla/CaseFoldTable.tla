--------------------------- MODULE CaseFoldTable ---------------------------
(* The case folding table of casefold_table.go (Unicode 16.0.0, status C   *)
(* and S), in decimal; the pairs in the order and in the blocks of the     *)
(* file's lines.                                                           *)
EXTENDS Naturals, Sequences

\* <<start, end, mappedStart>>
caseFoldRanges ==
  <<<<65, 90, 97>>, <<192, 214, 224>>, <<216, 222, 248>>, <<904, 906, 941>>, <<913, 929, 945>>,
    <<931, 939, 963>>, <<1021, 1023, 891>>, <<1024, 1039, 1104>>, <<1040, 1071, 1072>>,
    <<1329, 1366, 1377>>, <<4256, 4293, 11520>>, <<5112, 5117, 5104>>, <<7312, 7354, 4304>>,
    <<7357, 7359, 4349>>, <<7944, 7951, 7936>>, <<7960, 7965, 7952>>, <<7976, 7983, 7968>>,
    <<7992, 7999, 7984>>, <<8008, 8013, 8000>>, <<8040, 8047, 8032>>, <<8072, 8079, 8064>>,
    <<8088, 8095, 8080>>, <<8104, 8111, 8096>>, <<8136, 8139, 8050>>, <<8544, 8559, 8560>>,
    <<9398, 9423, 9424>>, <<11264, 11311, 11312>>, <<43888, 43967, 5024>>,
    <<65313, 65338, 65345>>, <<66560, 66599, 66600>>, <<66736, 66771, 66776>>,
    <<66928, 66938, 66967>>, <<66940, 66954, 66979>>, <<66956, 66962, 66995>>,
    <<68736, 68786, 68800>>, <<68944, 68965, 68976>>, <<71840, 71871, 71872>>,
    <<93760, 93791, 93792>>, <<125184, 125217, 125218>>>>

\* <<source, target>>
pairs1 ==
  <<<<181, 956>>, <<256, 257>>, <<258, 259>>, <<260, 261>>, <<262, 263>>, <<264, 265>>,
    <<266, 267>>, <<268, 269>>, <<270, 271>>, <<272, 273>>, <<274, 275>>, <<276, 277>>,
    <<278, 279>>, <<280, 281>>, <<282, 283>>, <<284, 285>>, <<286, 287>>, <<288, 289>>,
    <<290, 291>>, <<292, 293>>, <<294, 295>>, <<296, 297>>, <<298, 299>>, <<300, 301>>,
    <<302, 303>>, <<306, 307>>, <<308, 309>>, <<310, 311>>, <<313, 314>>, <<315, 316>>,
    <<317, 318>>, <<319, 320>>, <<321, 322>>, <<323, 324>>, <<325, 326>>, <<327, 328>>,
    <<330, 331>>, <<332, 333>>, <<334, 335>>, <<336, 337>>, <<338, 339>>, <<340, 341>>,
    <<342, 343>>, <<344, 345>>, <<346, 347>>, <<348, 349>>, <<350, 351>>, <<352, 353>>,
    <<354, 355>>, <<356, 357>>, <<358, 359>>, <<360, 361>>, <<362, 363>>, <<364, 365>>,
    <<366, 367>>, <<368, 369>>, <<370, 371>>, <<372, 373>>, <<374, 375>>, <<376, 255>>,
    <<377, 378>>, <<379, 380>>, <<381, 382>>, <<383, 115>>, <<385, 595>>, <<386, 387>>,
    <<388, 389>>, <<390, 596>>, <<391, 392>>, <<393, 598>>, <<394, 599>>, <<395, 396>>,
    <<398, 477>>, <<399, 601>>, <<400, 603>>, <<401, 402>>, <<403, 608>>, <<404, 611>>,
    <<406, 617>>, <<407, 616>>, <<408, 409>>, <<412, 623>>, <<413, 626>>, <<415, 629>>,
    <<416, 417>>, <<418, 419>>, <<420, 421>>, <<422, 640>>, <<423, 424>>, <<425, 643>>,
    <<428, 429>>, <<430, 648>>, <<431, 432>>, <<433, 650>>, <<434, 651>>, <<435, 436>>,
    <<437, 438>>, <<439, 658>>, <<440, 441>>, <<444, 445>>, <<452, 454>>, <<453, 454>>,
    <<455, 457>>, <<456, 457>>, <<458, 460>>, <<459, 460>>, <<461, 462>>, <<463, 464>>,
    <<465, 466>>, <<467, 468>>, <<469, 470>>, <<471, 472>>, <<473, 474>>, <<475, 476>>,
    <<478, 479>>, <<480, 481>>, <<482, 483>>, <<484, 485>>, <<486, 487>>, <<488, 489>>,
    <<490, 491>>, <<492, 493>>, <<494, 495>>, <<497, 499>>, <<498, 499>>, <<500, 501>>,
    <<502, 405>>, <<503, 447>>, <<504, 505>>, <<506, 507>>, <<508, 509>>, <<510, 511>>,
    <<512, 513>>, <<514, 515>>, <<516, 517>>>>

pairs2 ==
  <<<<518, 519>>, <<520, 521>>, <<522, 523>>, <<524, 525>>, <<526, 527>>, <<528, 529>>,
    <<530, 531>>, <<532, 533>>, <<534, 535>>, <<536, 537>>, <<538, 539>>, <<540, 541>>,
    <<542, 543>>, <<544, 414>>, <<546, 547>>, <<548, 549>>, <<550, 551>>, <<552, 553>>,
    <<554, 555>>, <<556, 557>>, <<558, 559>>, <<560, 561>>, <<562, 563>>, <<570, 11365>>,
    <<571, 572>>, <<573, 410>>, <<574, 11366>>, <<577, 578>>, <<579, 384>>, <<580, 649>>,
    <<581, 652>>, <<582, 583>>, <<584, 585>>, <<586, 587>>, <<588, 589>>, <<590, 591>>,
    <<837, 953>>, <<880, 881>>, <<882, 883>>, <<886, 887>>, <<895, 1011>>, <<902, 940>>,
    <<908, 972>>, <<910, 973>>, <<911, 974>>, <<962, 963>>, <<975, 983>>, <<976, 946>>,
    <<977, 952>>, <<981, 966>>, <<982, 960>>, <<984, 985>>, <<986, 987>>, <<988, 989>>,
    <<990, 991>>, <<992, 993>>, <<994, 995>>, <<996, 997>>, <<998, 999>>, <<1000, 1001>>,
    <<1002, 1003>>, <<1004, 1005>>, <<1006, 1007>>, <<1008, 954>>, <<1009, 961>>, <<1012, 952>>,
    <<1013, 949>>, <<1015, 1016>>, <<1017, 1010>>, <<1018, 1019>>, <<1120, 1121>>,
    <<1122, 1123>>, <<1124, 1125>>, <<1126, 1127>>, <<1128, 1129>>, <<1130, 1131>>,
    <<1132, 1133>>, <<1134, 1135>>, <<1136, 1137>>, <<1138, 1139>>, <<1140, 1141>>,
    <<1142, 1143>>, <<1144, 1145>>, <<1146, 1147>>, <<1148, 1149>>, <<1150, 1151>>,
    <<1152, 1153>>, <<1162, 1163>>, <<1164, 1165>>, <<1166, 1167>>, <<1168, 1169>>,
    <<1170, 1171>>, <<1172, 1173>>, <<1174, 1175>>, <<1176, 1177>>, <<1178, 1179>>,
    <<1180, 1181>>, <<1182, 1183>>, <<1184, 1185>>, <<1186, 1187>>, <<1188, 1189>>,
    <<1190, 1191>>, <<1192, 1193>>, <<1194, 1195>>, <<1196, 1197>>, <<1198, 1199>>,
    <<1200, 1201>>, <<1202, 1203>>, <<1204, 1205>>, <<1206, 1207>>, <<1208, 1209>>,
    <<1210, 1211>>, <<1212, 1213>>, <<1214, 1215>>, <<1216, 1231>>, <<1217, 1218>>,
    <<1219, 1220>>, <<1221, 1222>>, <<1223, 1224>>, <<1225, 1226>>, <<1227, 1228>>,
    <<1229, 1230>>, <<1232, 1233>>, <<1234, 1235>>, <<1236, 1237>>, <<1238, 1239>>,
    <<1240, 1241>>, <<1242, 1243>>, <<1244, 1245>>, <<1246, 1247>>, <<1248, 1249>>,
    <<1250, 1251>>, <<1252, 1253>>, <<1254, 1255>>, <<1256, 1257>>>>

pairs3 ==
  <<<<1258, 1259>>, <<1260, 1261>>, <<1262, 1263>>, <<1264, 1265>>, <<1266, 1267>>,
    <<1268, 1269>>, <<1270, 1271>>, <<1272, 1273>>, <<1274, 1275>>, <<1276, 1277>>,
    <<1278, 1279>>, <<1280, 1281>>, <<1282, 1283>>, <<1284, 1285>>, <<1286, 1287>>,
    <<1288, 1289>>, <<1290, 1291>>, <<1292, 1293>>, <<1294, 1295>>, <<1296, 1297>>,
    <<1298, 1299>>, <<1300, 1301>>, <<1302, 1303>>, <<1304, 1305>>, <<1306, 1307>>,
    <<1308, 1309>>, <<1310, 1311>>, <<1312, 1313>>, <<1314, 1315>>, <<1316, 1317>>,
    <<1318, 1319>>, <<1320, 1321>>, <<1322, 1323>>, <<1324, 1325>>, <<1326, 1327>>,
    <<4295, 11559>>, <<4301, 11565>>, <<7296, 1074>>, <<7297, 1076>>, <<7298, 1086>>,
    <<7299, 1089>>, <<7300, 1090>>, <<7301, 1090>>, <<7302, 1098>>, <<7303, 1123>>,
    <<7304, 42571>>, <<7305, 7306>>, <<7680, 7681>>, <<7682, 7683>>, <<7684, 7685>>,
    <<7686, 7687>>, <<7688, 7689>>, <<7690, 7691>>, <<7692, 7693>>, <<7694, 7695>>,
    <<7696, 7697>>, <<7698, 7699>>, <<7700, 7701>>, <<7702, 7703>>, <<7704, 7705>>,
    <<7706, 7707>>, <<7708, 7709>>, <<7710, 7711>>, <<7712, 7713>>, <<7714, 7715>>,
    <<7716, 7717>>, <<7718, 7719>>, <<7720, 7721>>, <<7722, 7723>>, <<7724, 7725>>,
    <<7726, 7727>>, <<7728, 7729>>, <<7730, 7731>>, <<7732, 7733>>, <<7734, 7735>>,
    <<7736, 7737>>, <<7738, 7739>>, <<7740, 7741>>, <<7742, 7743>>, <<7744, 7745>>,
    <<7746, 7747>>, <<7748, 7749>>, <<7750, 7751>>, <<7752, 7753>>, <<7754, 7755>>,
    <<7756, 7757>>, <<7758, 7759>>, <<7760, 7761>>, <<7762, 7763>>, <<7764, 7765>>,
    <<7766, 7767>>, <<7768, 7769>>, <<7770, 7771>>, <<7772, 7773>>, <<7774, 7775>>,
    <<7776, 7777>>, <<7778, 7779>>, <<7780, 7781>>, <<7782, 7783>>, <<7784, 7785>>,
    <<7786, 7787>>, <<7788, 7789>>, <<7790, 7791>>, <<7792, 7793>>, <<7794, 7795>>,
    <<7796, 7797>>, <<7798, 7799>>, <<7800, 7801>>, <<7802, 7803>>, <<7804, 7805>>,
    <<7806, 7807>>, <<7808, 7809>>, <<7810, 7811>>, <<7812, 7813>>, <<7814, 7815>>,
    <<7816, 7817>>, <<7818, 7819>>, <<7820, 7821>>, <<7822, 7823>>, <<7824, 7825>>,
    <<7826, 7827>>, <<7828, 7829>>, <<7835, 7777>>, <<7838, 223>>, <<7840, 7841>>,
    <<7842, 7843>>, <<7844, 7845>>, <<7846, 7847>>, <<7848, 7849>>, <<7850, 7851>>,
    <<7852, 7853>>, <<7854, 7855>>, <<7856, 7857>>, <<7858, 7859>>, <<7860, 7861>>>>

pairs4 ==
  <<<<7862, 7863>>, <<7864, 7865>>, <<7866, 7867>>, <<7868, 7869>>, <<7870, 7871>>,
    <<7872, 7873>>, <<7874, 7875>>, <<7876, 7877>>, <<7878, 7879>>, <<7880, 7881>>,
    <<7882, 7883>>, <<7884, 7885>>, <<7886, 7887>>, <<7888, 7889>>, <<7890, 7891>>,
    <<7892, 7893>>, <<7894, 7895>>, <<7896, 7897>>, <<7898, 7899>>, <<7900, 7901>>,
    <<7902, 7903>>, <<7904, 7905>>, <<7906, 7907>>, <<7908, 7909>>, <<7910, 7911>>,
    <<7912, 7913>>, <<7914, 7915>>, <<7916, 7917>>, <<7918, 7919>>, <<7920, 7921>>,
    <<7922, 7923>>, <<7924, 7925>>, <<7926, 7927>>, <<7928, 7929>>, <<7930, 7931>>,
    <<7932, 7933>>, <<7934, 7935>>, <<8025, 8017>>, <<8027, 8019>>, <<8029, 8021>>,
    <<8031, 8023>>, <<8120, 8112>>, <<8121, 8113>>, <<8122, 8048>>, <<8123, 8049>>,
    <<8124, 8115>>, <<8126, 953>>, <<8140, 8131>>, <<8147, 912>>, <<8152, 8144>>, <<8153, 8145>>,
    <<8154, 8054>>, <<8155, 8055>>, <<8163, 944>>, <<8168, 8160>>, <<8169, 8161>>,
    <<8170, 8058>>, <<8171, 8059>>, <<8172, 8165>>, <<8184, 8056>>, <<8185, 8057>>,
    <<8186, 8060>>, <<8187, 8061>>, <<8188, 8179>>, <<8486, 969>>, <<8490, 107>>, <<8491, 229>>,
    <<8498, 8526>>, <<8579, 8580>>, <<11360, 11361>>, <<11362, 619>>, <<11363, 7549>>,
    <<11364, 637>>, <<11367, 11368>>, <<11369, 11370>>, <<11371, 11372>>, <<11373, 593>>,
    <<11374, 625>>, <<11375, 592>>, <<11376, 594>>, <<11378, 11379>>, <<11381, 11382>>,
    <<11390, 575>>, <<11391, 576>>, <<11392, 11393>>, <<11394, 11395>>, <<11396, 11397>>,
    <<11398, 11399>>, <<11400, 11401>>, <<11402, 11403>>, <<11404, 11405>>, <<11406, 11407>>,
    <<11408, 11409>>, <<11410, 11411>>, <<11412, 11413>>, <<11414, 11415>>, <<11416, 11417>>,
    <<11418, 11419>>, <<11420, 11421>>, <<11422, 11423>>, <<11424, 11425>>, <<11426, 11427>>,
    <<11428, 11429>>, <<11430, 11431>>, <<11432, 11433>>, <<11434, 11435>>, <<11436, 11437>>,
    <<11438, 11439>>, <<11440, 11441>>, <<11442, 11443>>, <<11444, 11445>>, <<11446, 11447>>,
    <<11448, 11449>>, <<11450, 11451>>, <<11452, 11453>>, <<11454, 11455>>, <<11456, 11457>>,
    <<11458, 11459>>, <<11460, 11461>>, <<11462, 11463>>, <<11464, 11465>>, <<11466, 11467>>,
    <<11468, 11469>>, <<11470, 11471>>, <<11472, 11473>>, <<11474, 11475>>, <<11476, 11477>>,
    <<11478, 11479>>, <<11480, 11481>>, <<11482, 11483>>, <<11484, 11485>>, <<11486, 11487>>,
    <<11488, 11489>>, <<11490, 11491>>, <<11499, 11500>>>>

pairs5 ==
  <<<<11501, 11502>>, <<11506, 11507>>, <<42560, 42561>>, <<42562, 42563>>, <<42564, 42565>>,
    <<42566, 42567>>, <<42568, 42569>>, <<42570, 42571>>, <<42572, 42573>>, <<42574, 42575>>,
    <<42576, 42577>>, <<42578, 42579>>, <<42580, 42581>>, <<42582, 42583>>, <<42584, 42585>>,
    <<42586, 42587>>, <<42588, 42589>>, <<42590, 42591>>, <<42592, 42593>>, <<42594, 42595>>,
    <<42596, 42597>>, <<42598, 42599>>, <<42600, 42601>>, <<42602, 42603>>, <<42604, 42605>>,
    <<42624, 42625>>, <<42626, 42627>>, <<42628, 42629>>, <<42630, 42631>>, <<42632, 42633>>,
    <<42634, 42635>>, <<42636, 42637>>, <<42638, 42639>>, <<42640, 42641>>, <<42642, 42643>>,
    <<42644, 42645>>, <<42646, 42647>>, <<42648, 42649>>, <<42650, 42651>>, <<42786, 42787>>,
    <<42788, 42789>>, <<42790, 42791>>, <<42792, 42793>>, <<42794, 42795>>, <<42796, 42797>>,
    <<42798, 42799>>, <<42802, 42803>>, <<42804, 42805>>, <<42806, 42807>>, <<42808, 42809>>,
    <<42810, 42811>>, <<42812, 42813>>, <<42814, 42815>>, <<42816, 42817>>, <<42818, 42819>>,
    <<42820, 42821>>, <<42822, 42823>>, <<42824, 42825>>, <<42826, 42827>>, <<42828, 42829>>,
    <<42830, 42831>>, <<42832, 42833>>, <<42834, 42835>>, <<42836, 42837>>, <<42838, 42839>>,
    <<42840, 42841>>, <<42842, 42843>>, <<42844, 42845>>, <<42846, 42847>>, <<42848, 42849>>,
    <<42850, 42851>>, <<42852, 42853>>, <<42854, 42855>>, <<42856, 42857>>, <<42858, 42859>>,
    <<42860, 42861>>, <<42862, 42863>>, <<42873, 42874>>, <<42875, 42876>>, <<42877, 7545>>,
    <<42878, 42879>>, <<42880, 42881>>, <<42882, 42883>>, <<42884, 42885>>, <<42886, 42887>>,
    <<42891, 42892>>, <<42893, 613>>, <<42896, 42897>>, <<42898, 42899>>, <<42902, 42903>>,
    <<42904, 42905>>, <<42906, 42907>>, <<42908, 42909>>, <<42910, 42911>>, <<42912, 42913>>,
    <<42914, 42915>>, <<42916, 42917>>, <<42918, 42919>>, <<42920, 42921>>, <<42922, 614>>,
    <<42923, 604>>, <<42924, 609>>, <<42925, 620>>, <<42926, 618>>, <<42928, 670>>,
    <<42929, 647>>, <<42930, 669>>, <<42931, 43859>>, <<42932, 42933>>, <<42934, 42935>>,
    <<42936, 42937>>, <<42938, 42939>>, <<42940, 42941>>, <<42942, 42943>>, <<42944, 42945>>,
    <<42946, 42947>>, <<42948, 42900>>, <<42949, 642>>, <<42950, 7566>>, <<42951, 42952>>,
    <<42953, 42954>>, <<42955, 612>>, <<42956, 42957>>, <<42960, 42961>>, <<42966, 42967>>,
    <<42968, 42969>>, <<42970, 42971>>, <<42972, 411>>, <<42997, 42998>>, <<64261, 64262>>,
    <<66964, 67003>>, <<66965, 67004>>>>

caseFoldPairs == pairs1 \o pairs2 \o pairs3 \o pairs4 \o pairs5
=============================================================================
